---- MODULE Spec2Model ----
(***************************************************************************)
(* Model of vs_exporter's product-metrics pipeline: the per-target Scraper *)
(* (internal/productmetrics/scraper.go) and the multi-target Store         *)
(* (internal/productmetrics/store.go).                                     *)
(*                                                                         *)
(* Metric families are heap objects (Go pointers *dto.MetricFamily); a     *)
(* map[string]*dto.MetricFamily is a function from family names to heap    *)
(* addresses.  Unreachable heap objects are dropped after every step, as   *)
(* the Go garbage collector does.                                          *)
(***************************************************************************)
EXTENDS Integers, Sequences, FiniteSets, TLC

\* ------------------------------------------------------------------ bounds
MaxCycles  == 2    \* cycles started over a run, all loops together
MaxScrapes == 2    \* pod HTTP requests issued over a run, all targets together
MaxHostLen == 3    \* characters of a host

\* --------------------------------------------------------------- constants
namespaceLabelKey == "namespace"

TargetIDs  == {"alpha", "beta"}
Namespaces == <<"ns-a", "ns-b">>

Nil == [kind |-> "nil"]
NoMap == << >>            \* an empty Go map (a function with empty domain)

\* ------------------------------------------------------------------ inputs
Lbl(n, v) == [name |-> n, value |-> v]
\* A dto.Metric: its labels and its value, held in the field of the given kind
\* (Gauge, Counter, ...), which the parser sets from the family's TYPE.
Smp(k, l, v) == [kind |-> k, label |-> l, value |-> v]

\* What expfmt.TextParser returns for the bodies a pod may serve: a map from
\* family name to family.  Label names are unique within a sample (the parser
\* rejects duplicates); a payload may carry its own "namespace" label.
PayloadA ==
  [n \in {"foo"} |->
     [name |-> n, help |-> "hA", type |-> "gauge",
      metric |-> << Smp("gauge", << >>, 1),
                    Smp("gauge", << Lbl("namespace", "spoofed") >>, 2) >>]]

PayloadB ==
  [n \in {"foo", "bar"} |->
     [name |-> n, help |-> "hB", type |-> "counter",
      metric |-> IF n = "foo"
                 THEN << Smp("counter", << Lbl("job", "x"), Lbl("namespace", "ns-a") >>, 3) >>
                 ELSE << Smp("counter", << Lbl("job", "y") >>, 4) >>]]

\* The body of a pod that is itself a Go program with the Prometheus client's
\* default collectors: besides its own "foo" it serves "go_goroutines".
PayloadGo ==
  [n \in {"foo", "go_goroutines"} |->
     [name |-> n, help |-> "hGo", type |-> IF n = "foo" THEN "counter" ELSE "gauge",
      metric |-> IF n = "foo"
                 THEN << Smp("counter", << Lbl("job", "x") >>, 5) >>
                 ELSE << Smp("gauge", << >>, 6) >>]]

Payloads == {PayloadA, PayloadB}

\* Results of Namespaces().List: the order-preserving sub-lists of Namespaces.
RECURSIVE SubSeqs(_)
SubSeqs(s) ==
  IF s = << >> THEN { << >> }
  ELSE LET rest == SubSeqs(Tail(s))
       IN  rest \cup { <<Head(s)>> \o r : r \in rest }

NsLists == SubSeqs(Namespaces)

\* Results of Pods(ns).List in a cluster whose namespaces run pods of the given
\* names: the pods of a prefix of the names, each with or without a PodIP.
PodNames == <<"pod-0">>
PodIPs   == {"", "10.0.0.1"}
PodLists(names) ==
  UNION { { [i \in 1..n |-> [name |-> names[i], ip |-> f[i]]] : f \in [1..n -> PodIPs] }
          : n \in 0..Len(names) }

\* The loops main starts: one scraper per target, and the resolver.
Loops == TargetIDs \cup {"resolver"}

\* Durations as the configuration file spells them, by their characters:
\* none, "0s", "1m", "30s", "-1s" and one that is no duration.
DurationStrings ==
  { << >>, << "0", "s" >>, << "1", "m" >>, << "3", "0", "s" >>, << "-", "1", "s" >>, << "x" >> }

\* A target of the configuration file that passes Load, and the targets that
\* differ from the one called alpha in one field.
RawTarget(name) ==
  [ name |-> name, interval |-> << "3", "0", "s" >>, port |-> 8080, path |-> "/metrics",
    namespaceSelector |-> "product=a", podSelector |-> "app=product-a" ]

RawTargets ==
  { RawTarget(n) : n \in TargetIDs \cup {""} }
  \cup { [RawTarget("alpha") EXCEPT !.interval = d] : d \in DurationStrings }
  \cup { [RawTarget("alpha") EXCEPT !.port = q] : q \in {0 - 1, 0} }
  \cup { [RawTarget("alpha") EXCEPT !.path = ""],
         [RawTarget("alpha") EXCEPT !.namespaceSelector = ""],
         [RawTarget("alpha") EXCEPT !.podSelector = ""] }

\* The configuration files of the model: up to two targets.
RawConfigs ==
  [ listenAddress : {"", ":8090"},
    internalMetricsAddress : {"", ":9000"},
    virtualServiceInterval : DurationStrings,
    enableVirtualServiceScrapeJob : BOOLEAN,
    productMetrics : { << >> } \cup { << a >> : a \in RawTargets }
                              \cup { << a, b >> : a, b \in RawTargets } ]

\* Hosts, spelled by their characters: "b.a" stands for a name under the
\* domain "a", "*.a" for the wildcard of that domain, "c" for another name.
HostApi   == << "b", ".", "a" >>
HostWild  == << "*", ".", "a" >>
HostOther == << "c" >>

\* The characters of a host, and every host of up to MaxHostLen of them.
HostChars == {"*", ".", "a", "b"}
HostStrings == UNION { [1..n -> HostChars] : n \in 0..MaxHostLen }

\* Gateways: their name and the hosts of their servers.
GwWild  == [name |-> "edge-gw", servers |-> << [hosts |-> << HostWild >>] >>]
GwBare  == [name |-> "edge-gw", servers |-> << >>]
GwOther == [name |-> "edge-gw", servers |-> << [hosts |-> << HostOther >>] >>]
GwElse  == [name |-> "else-gw", servers |-> << [hosts |-> << HostWild >>] >>]

\* What Gateways(ns).List may return.
GwLists == { << >>, << GwWild >>, << GwBare >>, << GwOther >>, << GwElse >> }

\* VirtualServices: one without gateways, one that names a Gateway of its
\* own namespace and the same Gateway of another namespace, and one
\* without hosts that names the Gateway of another namespace and "".
VsMesh == [name |-> "vs-m", hosts |-> << HostOther >>, gateways |-> << >>]
VsBare == [name |-> "vs-b", hosts |-> << HostApi >>,
           gateways |-> << << "edge-gw" >>, << "shared-ns", "/", "edge-gw" >> >>]
VsQual == [name |-> "vs-q", hosts |-> << >>,
           gateways |-> << << "shared-ns", "/", "edge-gw" >>, << >> >>]

\* What VirtualServices(ns).List may return.
VsLists == { << >>, << VsMesh >>, << VsBare >>, << VsQual >>, << VsBare, VsQual >>,
            << VsMesh, VsQual >> }

\* The cluster a run takes place in: the pod names of a namespace and what
\* the pods serve; the namespaces with the label "product", and what the
\* VirtualService and Gateway list calls of a namespace may return.
Cluster(podNames, payloads, vsNamespaces, vsLists, gwLists) ==
  [podNames |-> podNames, payloads |-> payloads,
   vsNamespaces |-> vsNamespaces, vsLists |-> vsLists, gwLists |-> gwLists,
   silent |-> FALSE]    \* the API server and the pods have stopped answering

\* ------------------------------------------------------------------- state
VARIABLES
  cluster,      \* the cluster the process runs in: the pods of a namespace, what they serve
  heap,         \* address -> MetricFamily object
  targets,      \* Store.targets : target -> (family name -> address)
  readers,      \* number of holders of Store.mu.RLock
  pc,           \* per scraper: position in Run / ScrapeOnce
  nsList,       \* per scraper: namespaces of nsList.Items not yet visited
  curNs,        \* per scraper: ns.Name of the running outer iteration
  pods,         \* per scraper: pods.Items not yet visited
  newFamilies,  \* per scraper: the cycle's accumulator map
  errs,         \* per scraper: the cycle's []error
  ret,          \* per scraper: what the last ScrapeOnce returned
  cycles,       \* cycles started so far, all loops together
  scrapes,      \* HTTP requests issued so far
  tickC,        \* per scraper: the channel of Run's ticker holds a tick
  cancelled,    \* the context main derives from the signals is done
  vpc,          \* resolver: position in VirtualServiceCollector.Run
  vtickC,       \* resolver: the channel of its ticker holds a tick
  vticker,      \* resolver: Run has created its ticker
  updateCount,  \* VirtualServiceCollector.updateCount
  gauge,        \* VirtualServiceCollector.metric: <<namespace, virtual_service, gateway>> -> value
  vNamespaces,  \* update: namespaces.Items not yet visited
  vNsName,      \* update: nsName of the running iteration
  vVsItems,     \* update: vsList.Items not yet done, the one at hand first
  vRefs,        \* update: gateway references of the one at hand not yet visited
  gatewayCache, \* update: namespace -> (Gateway name -> Gateway)
  vret,         \* what the last update returned
  rpc,          \* reader: position in Store.snapshot
  rVisited,     \* reader: targets the range loop has visited, in order
  rResult,      \* reader: the result map being built / returned
  resp,         \* the last response of the /metrics handler
  hist,         \* history, per scraper: what happened in its current cycle
  hBase,        \* history, reader: contents of the store when the read lock was taken
  loops,        \* history, per loop: its cycles and ticks so far
  vhist,        \* history, resolver: what happened in its current cycle
  main,         \* main's position, the configuration it loaded, the goroutines it started
  hostPair      \* a VirtualService host and a Gateway host, and whether they match

vars == << cluster, heap, targets, readers, pc, nsList, curNs, pods, newFamilies, errs, ret,
           cycles, scrapes, tickC, cancelled, vpc, vtickC, rpc, rVisited, rResult, resp,
           hist, hBase, loops, vticker, updateCount, gauge, vNamespaces, vNsName, vVsItems,
           vRefs, gatewayCache, vret, vhist, hostPair, main >>

scraperVars == << pc, nsList, curNs, pods, newFamilies, errs, ret, cycles, scrapes, tickC,
                  hist, loops >>
readerVars  == << rpc, rVisited, rResult, hBase, resp >>
resolverVars == << vticker, updateCount, gauge, vNamespaces, vNsName, vVsItems, vRefs,
                   gatewayCache, vret, vhist >>
worldVars   == << main, cluster, hostPair, cancelled, vpc, vtickC, resolverVars >>
\* What the resolver never touches of the scrapers and the store.
pipelineVars == << heap, targets, readers, pc, nsList, curNs, pods, newFamilies, errs, ret,
                   scrapes, tickC, hist >>

\* No request has been answered yet.
NoResp ==
  [ served   |-> FALSE,
    status   |-> "",       \* "200" or "500"
    body     |-> << >>,    \* the lines written to the client
    out      |-> << >>,    \* the lines Store.WriteAll wrote into the handler's buffer
    werr     |-> FALSE,    \* Store.WriteAll returned an error
    gerr     |-> FALSE,    \* Gather returned an error
    eerr     |-> FALSE,    \* encoding a family of the registry returned an error
    series   |-> << >>,    \* the series Collect sent for the compatibility gauge
    cycle    |-> 0,        \* history: the resolver's updateCount when Collect ran
    putSince |-> FALSE ]   \* history: a Replace was issued since this response

\* The history of a loop that has just been started.
NoLoop ==
  [ started |-> 0,    \* calls of ScrapeOnce (resolver: of update) made
    ticks   |-> 0,    \* ticks received from ticker.C
    late    |-> 0,    \* ... of them after the context was done
    open    |-> 0,    \* calls made that have not returned
    lastPut |-> 0 ]   \* the call (counted by started) that issued the last Replace

\* No pair of hosts is being compared.
NoPair == [vsHost |-> << >>, gwHost |-> << >>, out |-> "none"]

\* The history of a resolver cycle that has not started.
NoVsHist ==
  [ before  |-> << >>,    \* the gauge when update was called
    listed  |-> {},       \* <<namespace, VirtualService>> of the VirtualServices listed
    gws     |-> << >>,    \* namespace -> the Gateways its list call returned
    calls   |-> << >>,    \* namespace -> Gateways(namespace).List calls made
    outcome |-> "none" ]  \* running, ok, or the list call that failed

\* The history of a cycle that has not started.
NoHist ==
  [ disc     |-> "none",   \* outcome of the namespace-list call: none, failed, ok
    ns       |-> << >>,    \* the namespaces it returned
    listed   |-> << >>,    \* the namespaces whose pods were listed, with the outcome
    eligible |-> {},       \* <<namespace, pod>> of the listed pods that have an IP
    ok       |-> << >>,    \* <<namespace, pod, parsed families>> of the scrapes that succeeded
    failed   |-> {},       \* <<namespace, pod>> of the scrapes that failed
    puts     |-> 0,        \* Store.Replace calls issued
    prev     |-> [present |-> FALSE, names |-> {}] ]   \* the families the Replace overwrote

\* main has not loaded a configuration.
NoConfig ==
  [ ListenAddress |-> "", InternalMetricsAddress |-> "", VirtualServiceInterval |-> 0,
    EnableVirtualServiceScrapeJob |-> FALSE, ProductMetrics |-> << >> ]

\* main before it runs (and in the specifications that start at the loops).
NoMain ==
  [ pc       |-> "off",     \* load, exited, resolver, scrapers, serving
    raw      |-> << >>,     \* the configuration file as unmarshalled
    cfg      |-> NoConfig,  \* what Load returned
    err      |-> Nil,       \* ... and its error
    resolver |-> FALSE,     \* go vsCollector.Run(...) was executed
    scrapers |-> << >>,     \* the target names of the scrapers started, in order
    store    |-> << >> ]    \* target -> the scraper (its place in scrapers) that put last

\* ----------------------------------------------------------------- helpers
Range(f) == { f[x] : x \in DOMAIN f }

Min(S) == CHOOSE a \in S : \A b \in S : a <= b

\* A fresh heap address for an object that owner allocates for family name.
Alloc(h, owner, name) ==
  << owner, name,
     Min({ i \in 0..Cardinality(DOMAIN h) : << owner, name, i >> \notin DOMAIN h }) >>

Restrict(f, S) == [x \in (DOMAIN f) \cap S |-> f[x]]

\* The objects still referenced from the store, a scraper or a reader.
Live(tg, nf, rr) ==
  UNION { Range(tg[t]) : t \in DOMAIN tg } \cup
  UNION { Range(nf[t]) : t \in DOMAIN nf } \cup Range(rr)

GC(h, tg, nf, rr) == Restrict(h, Live(tg, nf, rr))

\* The families a map points to, by value.
Deref(h, m) == [n \in DOMAIN m |-> h[m[n]]]
DerefAll(h, tg) == [t \in DOMAIN tg |-> Deref(h, tg[t])]

MapPut(m, k, v) == [x \in (DOMAIN m) \cup {k} |-> IF x = k THEN v ELSE m[x]]


\* ----------------------------------------------------------- scraper: pure
\* cloneAndLabelFamily, one metric: the first label called "namespace" is
\* overwritten, otherwise the label is appended.
LabelMetric(m, namespace) ==
  LET hits == { i \in 1..Len(m.label) : m.label[i].name = namespaceLabelKey }
  IN  IF hits # {}
      THEN [m EXCEPT !.label[Min(hits)].value = namespace]
      ELSE [m EXCEPT !.label = Append(@, Lbl(namespaceLabelKey, namespace))]

\* Mutant of cloneAndLabelFamily: the label is only added where the payload
\* has none; a payload-supplied value is kept.
cloneAndLabelFamilyKeep(family, namespace) ==
  [family EXCEPT !.metric =
     [i \in 1..Len(@) |->
        IF \E j \in 1..Len(@[i].label) : @[i].label[j].name = namespaceLabelKey
        THEN @[i]
        ELSE [@[i] EXCEPT !.label = Append(@, Lbl(namespaceLabelKey, namespace))]]]

\* cloneAndLabelFamily: the family (a value here: the clone is allocated by the
\* caller) with every metric labelled.
cloneAndLabelFamily(family, namespace) ==
  [family EXCEPT !.metric = [i \in 1..Len(@) |-> LabelMetric(@[i], namespace)]]

\* Mutant of MergeParsed: a metric the accumulated family already holds, label
\* for label and value for value, is not appended again.
RECURSIVE MergeParsedDedup(_, _, _, _, _, _)
MergeParsedDedup(h, acc, parsed, names, namespace, owner) ==
  IF names = {} THEN [heap |-> h, acc |-> acc]
  ELSE LET name      == CHOOSE n \in names : TRUE
           withLabel == cloneAndLabelFamily(parsed[name], namespace)
           a         == Alloc(h, owner, name)
           isNew(m)  == \A i \in 1..Len(h[acc[name]].metric) : h[acc[name]].metric[i] # m
       IN  IF name \in DOMAIN acc
           THEN MergeParsedDedup([h EXCEPT ![acc[name]].metric =
                                              @ \o SelectSeq(withLabel.metric, isNew)],
                                 acc, parsed, names \ {name}, namespace, owner)
           ELSE MergeParsedDedup(MapPut(h, a, withLabel), MapPut(acc, name, a),
                                 parsed, names \ {name}, namespace, owner)

\* scrapePod's merge loop over the parsed families: a name the accumulator
\* already has gets the labelled metrics appended in place, a new name gets the
\* labelled clone.  Returns the new heap and accumulator.
RECURSIVE MergeParsed(_, _, _, _, _, _)
MergeParsed(h, acc, parsed, names, namespace, owner) ==
  IF names = {} THEN [heap |-> h, acc |-> acc]
  ELSE LET name      == CHOOSE n \in names : TRUE
           withLabel == cloneAndLabelFamily(parsed[name], namespace)
           a         == Alloc(h, owner, name)
       IN  IF name \in DOMAIN acc
           THEN MergeParsed([h EXCEPT ![acc[name]].metric = @ \o withLabel.metric],
                            acc, parsed, names \ {name}, namespace, owner)
           ELSE MergeParsed(MapPut(h, a, withLabel), MapPut(acc, name, a),
                            parsed, names \ {name}, namespace, owner)

\* errors.Join: nil when there is nothing to join.
Join(es) == IF es = << >> THEN Nil ELSE [kind |-> "join", errs |-> es]

\* Mutant of SkipNoIP: no pod is skipped.
SkipNothing(ps) == ps

\* The range loop over pods.Items skips pods whose Status.PodIP is empty.
RECURSIVE SkipNoIP(_)
SkipNoIP(ps) ==
  IF ps # << >> /\ Head(ps).ip = "" THEN SkipNoIP(Tail(ps)) ELSE ps

Eligible(ps) == { i \in 1..Len(ps) : ps[i].ip # "" }

\* -------------------------------------------------------------- the store
\* Mutant of Replace: the new families are merged into the target's old map.
ReplaceMerging(tg, target, all) ==
  IF target \in DOMAIN tg
  THEN MapPut(tg, target,
              [n \in (DOMAIN tg[target]) \cup (DOMAIN all) |->
                 IF n \in DOMAIN all THEN all[n] ELSE tg[target][n]])
  ELSE MapPut(tg, target, all)

\* Mutant of Replace: the store keeps one snapshot, that of the last writer.
ReplaceWholeStore(tg, target, all) == [x \in {target} |-> all]

\* Store.Replace(target, all): under mu.Lock, s.targets[target] = all.
Replace(tg, target, all) == MapPut(tg, target, all)

\* Mutant of CanLock: Replace does not wait for the readers.
CanLockAnyway == TRUE

\* mu.Lock() succeeds when nobody holds the lock (Replace holds it for the
\* one assignment, so a writer is never seen holding it).
CanLock == readers = 0

\* The timeout an outbound call is made with, in seconds, 0 for none: scrapePod
\* derives a context with requestTimeout for its GET; the list calls are made
\* with the context of Run as it is.
requestTimeout == 10
CallTimeout(call) == IF call = "get" THEN requestTimeout ELSE 0

\* An outbound call returns to its caller: the peer answers, or the context is
\* done, or the call's timeout runs out.
Returns(call) == ~cluster.silent \/ cancelled \/ CallTimeout(call) > 0

\* -------------------------------------------------------- scraper: actions
\* Mutant of ListNamespacesFail: the failed cycle publishes its empty
\* accumulator before it returns the error.
ListNamespacesFailPublishes(t) ==
  /\ pc[t] = "scrape"
  /\ cycles < MaxCycles
  /\ cycles' = cycles + 1
  /\ ret' = [ret EXCEPT ![t] = [kind |-> "list namespaces"]]
  /\ pc' = [pc EXCEPT ![t] = "select"]
  /\ hist' = [hist EXCEPT ![t].disc = "failed", ![t].puts = @ + 1]
  /\ readers = 0
  /\ LET tg == MapPut(targets, t, NoMap)
     IN  /\ targets' = tg
         /\ heap' = GC(heap, tg, newFamilies, rResult)
  /\ UNCHANGED << readers, nsList, curNs, pods, newFamilies, errs, scrapes >>
  /\ UNCHANGED readerVars
  /\ loops' = [loops EXCEPT ![t].started = @ + 1, ![t].lastPut = loops[t].started + 1]
  /\ UNCHANGED tickC
  /\ UNCHANGED worldVars

\* Run: the loop calls ScrapeOnce; ScrapeOnce lists the namespaces.  The list
\* call fails: ScrapeOnce returns the wrapped error at once.
ListNamespacesFail(t) ==
  /\ pc[t] = "scrape"
  /\ Returns("namespaces")
  /\ cycles < MaxCycles
  /\ cycles' = cycles + 1
  /\ ret' = [ret EXCEPT ![t] = [kind |-> "list namespaces"]]
  /\ pc' = [pc EXCEPT ![t] = "select"]
  /\ hist' = [hist EXCEPT ![t].disc = "failed"]
  /\ UNCHANGED << heap, targets, readers, nsList, curNs, pods, newFamilies, errs,
                  scrapes >>
  /\ UNCHANGED readerVars
  /\ loops' = [loops EXCEPT ![t].started = @ + 1]
  /\ UNCHANGED tickC
  /\ UNCHANGED worldVars

\* The list call succeeds: a fresh accumulator and error list, then the loop
\* over nsList.Items.
ListNamespacesOk(t) ==
  /\ pc[t] = "scrape"
  /\ ~cluster.silent
  /\ cycles < MaxCycles
  /\ ~cancelled
  /\ cycles' = cycles + 1
  /\ \E l \in NsLists :
       /\ nsList' = [nsList EXCEPT ![t] = l]
       /\ hist' = [hist EXCEPT ![t].disc = "ok", ![t].ns = l]
  /\ newFamilies' = [newFamilies EXCEPT ![t] = NoMap]
  /\ errs' = [errs EXCEPT ![t] = << >>]
  /\ pods' = [pods EXCEPT ![t] = << >>]
  /\ pc' = [pc EXCEPT ![t] = "loop"]
  /\ UNCHANGED << heap, targets, readers, curNs, ret, scrapes >>
  /\ UNCHANGED readerVars
  /\ loops' = [loops EXCEPT ![t].started = @ + 1, ![t].open = @ + 1]
  /\ UNCHANGED tickC
  /\ UNCHANGED worldVars

\* Mutant of ListPodsFail: the error ends the loop over the namespaces.
ListPodsFailBreaks(t) ==
  /\ pc[t] = "loop"
  /\ pods[t] = << >>
  /\ nsList[t] # << >>
  /\ nsList' = [nsList EXCEPT ![t] = << >>]
  /\ curNs' = [curNs EXCEPT ![t] = Head(nsList[t])]
  /\ errs' = [errs EXCEPT ![t] =
                Append(@, [kind |-> "list pods", ns |-> Head(nsList[t]), pod |-> ""])]
  /\ hist' = [hist EXCEPT ![t].listed = Append(@, << Head(nsList[t]), "failed" >>)]
  /\ UNCHANGED << heap, targets, readers, pc, pods, newFamilies, ret, cycles, scrapes >>
  /\ UNCHANGED readerVars
  /\ UNCHANGED << tickC, loops >>
  /\ UNCHANGED worldVars

\* Mutant of ListPodsFail: the namespace is skipped and no error is recorded.
ListPodsFailSilent(t) ==
  /\ pc[t] = "loop"
  /\ pods[t] = << >>
  /\ nsList[t] # << >>
  /\ nsList' = [nsList EXCEPT ![t] = Tail(@)]
  /\ curNs' = [curNs EXCEPT ![t] = Head(nsList[t])]
  /\ hist' = [hist EXCEPT ![t].listed = Append(@, << Head(nsList[t]), "failed" >>)]
  /\ UNCHANGED << heap, targets, readers, pc, pods, newFamilies, errs, ret, cycles,
                  scrapes >>
  /\ UNCHANGED readerVars
  /\ UNCHANGED << tickC, loops >>
  /\ UNCHANGED worldVars

\* Outer loop, next namespace: the pod-list call fails; one error, continue.
ListPodsFail(t) ==
  /\ pc[t] = "loop"
  /\ Returns("pods")
  /\ pods[t] = << >>
  /\ nsList[t] # << >>
  /\ nsList' = [nsList EXCEPT ![t] = Tail(@)]
  /\ curNs' = [curNs EXCEPT ![t] = Head(nsList[t])]
  /\ errs' = [errs EXCEPT ![t] =
                Append(@, [kind |-> "list pods", ns |-> Head(nsList[t]), pod |-> ""])]
  /\ hist' = [hist EXCEPT ![t].listed = Append(@, << Head(nsList[t]), "failed" >>)]
  /\ UNCHANGED << heap, targets, readers, pc, pods, newFamilies, ret, cycles, scrapes >>
  /\ UNCHANGED readerVars
  /\ UNCHANGED << tickC, loops >>
  /\ UNCHANGED worldVars

\* Outer loop, next namespace: the pod-list call succeeds; the inner loop
\* starts at the first pod that has an IP.
ListPodsOk(t) ==
  /\ pc[t] = "loop"
  /\ ~cluster.silent
  /\ ~cancelled
  /\ pods[t] = << >>
  /\ nsList[t] # << >>
  /\ nsList' = [nsList EXCEPT ![t] = Tail(@)]
  /\ curNs' = [curNs EXCEPT ![t] = Head(nsList[t])]
  /\ \E ps \in PodLists(cluster.podNames) :
       /\ scrapes + Cardinality(Eligible(ps)) <= MaxScrapes
       /\ pods' = [pods EXCEPT ![t] = SkipNoIP(ps)]
       /\ hist' = [hist EXCEPT
                     ![t].listed = Append(@, << Head(nsList[t]), "ok" >>),
                     ![t].eligible = @ \cup { << Head(nsList[t]), ps[i].name >> : i \in Eligible(ps) }]
  /\ UNCHANGED << heap, targets, readers, pc, newFamilies, errs, ret, cycles, scrapes >>
  /\ UNCHANGED readerVars
  /\ UNCHANGED << tickC, loops >>
  /\ UNCHANGED worldVars

\* Mutant of ScrapePodFail: what the parser had parsed when it failed is merged
\* into the accumulator before the error is returned.
ScrapePodFailMerges(t) ==
  /\ pc[t] = "loop"
  /\ pods[t] # << >>
  /\ scrapes' = scrapes + 1
  /\ \E partial \in cluster.payloads \cup {NoMap} :
       LET r == MergeParsed(heap, newFamilies[t], partial, DOMAIN partial, curNs[t], t)
       IN  /\ heap' = r.heap
           /\ newFamilies' = [newFamilies EXCEPT ![t] = r.acc]
  /\ errs' = [errs EXCEPT ![t] =
                Append(@, [kind |-> "scrape pod", ns |-> curNs[t], pod |-> Head(pods[t]).name])]
  /\ pods' = [pods EXCEPT ![t] = SkipNoIP(Tail(@))]
  /\ hist' = [hist EXCEPT ![t].failed = @ \cup { << curNs[t], Head(pods[t]).name >> }]
  /\ UNCHANGED << targets, readers, pc, nsList, curNs, ret, cycles >>
  /\ UNCHANGED readerVars
  /\ UNCHANGED << tickC, loops >>
  /\ UNCHANGED worldVars

\* Inner loop, next pod with an IP: scrapePod returns an error (it could not
\* create or execute the request, the status was not 200, the body could not
\* be read or did not parse: all five returns come before the accumulator is
\* touched, and differ only in the message wrapped); one error, next pod.
\* partial is what the parser had parsed when it failed.
ScrapePodFail(t) ==
  /\ pc[t] = "loop"
  /\ Returns("get")
  /\ pods[t] # << >>
  /\ scrapes' = scrapes + 1
  /\ \E partial \in cluster.payloads \cup {NoMap} :
       errs' = [errs EXCEPT ![t] =
                  Append(@, [kind |-> "scrape pod", ns |-> curNs[t], pod |-> Head(pods[t]).name])]
  /\ pods' = [pods EXCEPT ![t] = SkipNoIP(Tail(@))]
  /\ hist' = [hist EXCEPT ![t].failed = @ \cup { << curNs[t], Head(pods[t]).name >> }]
  /\ UNCHANGED << heap, targets, readers, pc, nsList, curNs, newFamilies, ret, cycles >>
  /\ UNCHANGED readerVars
  /\ UNCHANGED << tickC, loops >>
  /\ UNCHANGED worldVars

\* Inner loop, next pod with an IP: status 200 and a body that parses; the
\* parsed families are labelled and merged into the accumulator.
ScrapePodOk(t) ==
  /\ pc[t] = "loop"
  /\ ~cluster.silent
  /\ ~cancelled
  /\ pods[t] # << >>
  /\ scrapes' = scrapes + 1
  /\ \E parsed \in cluster.payloads :
       LET r == MergeParsed(heap, newFamilies[t], parsed, DOMAIN parsed, curNs[t], t)
       IN  /\ heap' = r.heap
           /\ newFamilies' = [newFamilies EXCEPT ![t] = r.acc]
           /\ hist' = [hist EXCEPT
                         ![t].ok = Append(@, << curNs[t], Head(pods[t]).name, parsed >>)]
  /\ pods' = [pods EXCEPT ![t] = SkipNoIP(Tail(@))]
  /\ UNCHANGED << targets, readers, pc, nsList, curNs, errs, ret, cycles >>
  /\ UNCHANGED readerVars
  /\ UNCHANGED << tickC, loops >>
  /\ UNCHANGED worldVars

\* Mutant of Publish: a cycle that recorded an error returns it without the
\* Replace.
PublishUnlessErrors(t) ==
  /\ pc[t] = "loop"
  /\ pods[t] = << >>
  /\ nsList[t] = << >>
  /\ readers = 0
  /\ LET tg == IF errs[t] = << >> THEN MapPut(targets, t, newFamilies[t]) ELSE targets
         nf == [newFamilies EXCEPT ![t] = NoMap]
     IN  /\ targets' = tg
         /\ newFamilies' = nf
         /\ heap' = GC(heap, tg, nf, rResult)
  /\ ret' = [ret EXCEPT ![t] = Join(errs[t])]
  /\ errs' = [errs EXCEPT ![t] = << >>]
  /\ curNs' = [curNs EXCEPT ![t] = ""]
  /\ pc' = [pc EXCEPT ![t] = "select"]
  /\ hist' = [hist EXCEPT ![t].puts = IF errs[t] = << >> THEN @ + 1 ELSE @]
  /\ UNCHANGED << readers, nsList, pods, cycles, scrapes >>
  /\ UNCHANGED readerVars
  /\ loops' = [loops EXCEPT ![t].open = @ - 1,
                            ![t].lastPut = IF errs[t] = << >> THEN loops[t].started ELSE @]
  /\ UNCHANGED tickC
  /\ UNCHANGED worldVars

\* Both loops are done: s.store.Replace(s.targetName, newFamilies), then
\* return errors.Join(errs...).  ScrapeOnce's locals die with the return.
Publish(t) ==
  /\ pc[t] = "loop"
  /\ pods[t] = << >>
  /\ nsList[t] = << >>
  /\ CanLock
  /\ LET tg == Replace(targets, t, newFamilies[t])
         nf == [newFamilies EXCEPT ![t] = NoMap]
     IN  /\ targets' = tg
         /\ newFamilies' = nf
         /\ heap' = GC(heap, tg, nf, rResult)
  /\ ret' = [ret EXCEPT ![t] = Join(errs[t])]
  /\ errs' = [errs EXCEPT ![t] = << >>]
  /\ curNs' = [curNs EXCEPT ![t] = ""]
  /\ pc' = [pc EXCEPT ![t] = "select"]
  /\ hist' = [hist EXCEPT
                ![t].puts = @ + 1,
                ![t].prev = IF t \in DOMAIN targets
                            THEN [present |-> TRUE, names |-> DOMAIN targets[t]]
                            ELSE [present |-> FALSE, names |-> {}]]
  /\ resp' = IF resp.served THEN [resp EXCEPT !.putSince = TRUE] ELSE resp
  /\ UNCHANGED << readers, nsList, pods, cycles, scrapes >>
  /\ UNCHANGED << rpc, rVisited, rResult, hBase >>
  /\ loops' = [loops EXCEPT ![t].open = @ - 1, ![t].lastPut = loops[t].started]
  /\ UNCHANGED tickC
  /\ UNCHANGED worldVars

\* Mutant of Tick: the tick is also taken while ScrapeOnce is still running,
\* and starts the next call beside it.
TickReentrant(t) ==
  /\ pc[t] \in {"select", "loop"}
  /\ cycles < MaxCycles \/ cancelled
  /\ tickC[t] \/ ~cancelled
  /\ tickC' = [tickC EXCEPT ![t] = FALSE]
  /\ pc' = [pc EXCEPT ![t] = "scrape"]
  /\ ret' = [ret EXCEPT ![t] = [kind |-> "none"]]
  /\ hist' = [hist EXCEPT ![t] = NoHist]
  /\ loops' = [loops EXCEPT ![t].ticks = @ + 1,
                            ![t].late = IF cancelled THEN @ + 1 ELSE @]
  /\ UNCHANGED << heap, targets, readers, nsList, curNs, pods, newFamilies, errs,
                  cycles, scrapes >>
  /\ UNCHANGED readerVars
  /\ UNCHANGED worldVars

\* Run's select: the ticker fires and the loop calls ScrapeOnce again.
Tick(t) ==
  /\ pc[t] = "select"
  /\ cycles < MaxCycles \/ cancelled
  /\ tickC[t] \/ ~cancelled
  /\ tickC' = [tickC EXCEPT ![t] = FALSE]
  /\ pc' = [pc EXCEPT ![t] = "scrape"]
  /\ ret' = [ret EXCEPT ![t] = [kind |-> "none"]]
  /\ hist' = [hist EXCEPT ![t] = NoHist]
  /\ loops' = [loops EXCEPT ![t].ticks = @ + 1,
                            ![t].late = IF cancelled THEN @ + 1 ELSE @]
  /\ UNCHANGED << heap, targets, readers, nsList, curNs, pods, newFamilies, errs,
                  cycles, scrapes >>
  /\ UNCHANGED readerVars
  /\ UNCHANGED worldVars

\* Run's ticker puts a tick into its channel while the loop is busy in
\* ScrapeOnce; the channel holds one tick, further ones are dropped.  (A tick
\* that arrives while the loop waits in the select is received at once: Tick.)
TickerFires(t) ==
  /\ pc[t] \in {"scrape", "loop"}
  /\ ~tickC[t]
  /\ tickC' = [tickC EXCEPT ![t] = TRUE]
  /\ UNCHANGED << heap, targets, readers, pc, nsList, curNs, pods, newFamilies, errs, ret,
                  cycles, scrapes, hist, loops >>
  /\ UNCHANGED readerVars
  /\ UNCHANGED worldVars

\* Run's select: ctx.Done() is closed and the select takes that case; Run
\* returns (the deferred ticker.Stop does not drain the channel).
Stop(t) ==
  /\ pc[t] = "select"
  /\ cancelled
  /\ pc' = [pc EXCEPT ![t] = "returned"]
  /\ UNCHANGED << heap, targets, readers, nsList, curNs, pods, newFamilies, errs, ret,
                  cycles, scrapes, tickC, hist, loops >>
  /\ UNCHANGED readerVars
  /\ UNCHANGED worldVars

\* ---------------------------------------------------------------- resolver
\* Strings the resolver takes apart are spelled as sequences: a gateway
\* reference as its segments and the "/" between them ("shared-ns/edge-gw" is
\* <<"shared-ns", "/", "edge-gw">>, "" is << >>), a host as its characters.
\* A name without "/" is the one-segment sequence.
Str(name) == << name >>

mesh == Str("mesh")

HasPrefix(s, prefix) ==
  Len(s) >= Len(prefix) /\ SubSeq(s, 1, Len(prefix)) = prefix

HasSuffix(s, suffix) ==
  Len(s) >= Len(suffix) /\ SubSeq(s, Len(s) - Len(suffix) + 1, Len(s)) = suffix

TrimPrefix(s, prefix) ==
  IF HasPrefix(s, prefix) THEN SubSeq(s, Len(prefix) + 1, Len(s)) ELSE s

\* Mutant of hostMatches: the wildcard's suffix is taken without its dot.
hostMatchesBareSuffix(pattern, host) ==
  IF pattern = << >> THEN FALSE
  ELSE IF pattern = << "*" >> \/ pattern = host THEN TRUE
  ELSE IF HasPrefix(pattern, << "*", "." >>)
       THEN HasSuffix(host, TrimPrefix(pattern, << "*", "." >>))
       ELSE FALSE

\* hostMatches(pattern, host).
hostMatches(pattern, host) ==
  IF pattern = << >> THEN FALSE
  ELSE IF pattern = << "*" >> \/ pattern = host THEN TRUE
  ELSE IF HasPrefix(pattern, << "*", "." >>)
       THEN HasSuffix(host, TrimPrefix(pattern, << "*" >>))
       ELSE FALSE

\* The loop over gateway.Spec.Servers: the hosts of all servers, appended.
RECURSIVE ServerHosts(_)
ServerHosts(servers) ==
  IF servers = << >> THEN << >>
  ELSE Head(servers).hosts \o ServerHosts(Tail(servers))

\* Mutant of hostsCompatible: a Gateway without server hosts is refused
\* before the VirtualService's hosts are looked at.
hostsCompatibleGatewayFirst(vsHosts, gateway) ==
  IF gateway = Nil THEN FALSE
  ELSE LET gatewayHosts == ServerHosts(gateway.servers)
       IN  IF gatewayHosts = << >> THEN FALSE
           ELSE IF vsHosts = << >> THEN TRUE
           ELSE \E i \in 1..Len(vsHosts), j \in 1..Len(gatewayHosts) :
                  \/ hostMatches(gatewayHosts[j], vsHosts[i])
                  \/ hostMatches(vsHosts[i], gatewayHosts[j])

\* hostsCompatible(vsHosts, gateway).
hostsCompatible(vsHosts, gateway) ==
  IF gateway = Nil THEN FALSE
  ELSE IF vsHosts = << >> THEN TRUE
  ELSE LET gatewayHosts == ServerHosts(gateway.servers)
       IN  IF gatewayHosts = << >> THEN FALSE
           ELSE \E i \in 1..Len(vsHosts), j \in 1..Len(gatewayHosts) :
                  \/ hostMatches(gatewayHosts[j], vsHosts[i])
                  \/ hostMatches(vsHosts[i], gatewayHosts[j])

\* Mutant of GatewayRefs: a VirtualService without gateways has no reference.
GatewayRefsAsListed(vs) == vs.gateways

\* update: vs.Spec.Gateways, or the one reference "mesh" when there is none.
GatewayRefs(vs) == IF vs.gateways = << >> THEN << mesh >> ELSE vs.gateways

\* Mutant of ParseRef: the namespace part of a qualified reference is
\* dropped, the Gateway is looked up in the VirtualService's own namespace.
ParseRefOwnNamespace(nsName, gatewayRef) ==
  IF \E i \in 1..Len(gatewayRef) : gatewayRef[i] = "/"
  THEN LET i == Min({ j \in 1..Len(gatewayRef) : gatewayRef[j] = "/" })
       IN  [gwNamespace |-> Str(nsName),
            gwName      |-> SubSeq(gatewayRef, i + 1, Len(gatewayRef))]
  ELSE [gwNamespace |-> Str(nsName), gwName |-> gatewayRef]

\* update: gwNamespace and gwName of a reference: strings.SplitN at the
\* first "/" when there is one, else the VirtualService's namespace and the
\* reference itself.
ParseRef(nsName, gatewayRef) ==
  IF \E i \in 1..Len(gatewayRef) : gatewayRef[i] = "/"
  THEN LET i == Min({ j \in 1..Len(gatewayRef) : gatewayRef[j] = "/" })
       IN  [gwNamespace |-> SubSeq(gatewayRef, 1, i - 1),
            gwName      |-> SubSeq(gatewayRef, i + 1, Len(gatewayRef))]
  ELSE [gwNamespace |-> Str(nsName), gwName |-> gatewayRef]

\* update: the value of a reference that is neither "" nor "mesh", from the
\* Gateways of its namespace.
RefValue(vs, nsGateways, gwName) ==
  IF DOMAIN nsGateways = {} THEN 0
  ELSE IF gwName \notin DOMAIN nsGateways THEN 0
  ELSE IF ~hostsCompatible(vs.hosts, nsGateways[gwName]) THEN 0
  ELSE 1

\* ensureGatewaysCached: the map built from list.Items, by name.
GatewayMap(items) ==
  [n \in { Str(items[i].name) : i \in 1..Len(items) } |->
     items[CHOOSE i \in 1..Len(items) :
             /\ Str(items[i].name) = n
             /\ \A j \in (i + 1)..Len(items) : Str(items[j].name) # n]]

\* Mutant of ensureGatewaysCached: the cache is never consulted, every lookup
\* lists the Gateways of the namespace.
ensureGatewaysListed(namespace, cache) ==
  IF namespace = << >>
  THEN { [err |-> FALSE, gateways |-> NoMap, cache |-> cache, called |-> FALSE] }
  ELSE { [err |-> TRUE, gateways |-> NoMap, cache |-> cache, called |-> TRUE] }
       \cup
       { [err |-> FALSE, gateways |-> GatewayMap(items),
          cache |-> MapPut(cache, namespace, GatewayMap(items)), called |-> TRUE]
         : items \in IF cancelled THEN {} ELSE cluster.gwLists }

\* ensureGatewaysCached(ctx, namespace, cache): what it can return, the cache
\* it leaves and whether it called Gateways(namespace).List.  No namespace:
\* nil without a call; a cached namespace: the cached map; else the list
\* call, which fails (always, once the context is done) or fills the cache.
ensureGatewaysCached(namespace, cache) ==
  IF namespace = << >>
  THEN { [err |-> FALSE, gateways |-> NoMap, cache |-> cache, called |-> FALSE] }
  ELSE IF namespace \in DOMAIN cache
  THEN { [err |-> FALSE, gateways |-> cache[namespace], cache |-> cache, called |-> FALSE] }
  ELSE (IF Returns("gateways")
        THEN { [err |-> TRUE, gateways |-> NoMap, cache |-> cache, called |-> TRUE] }
        ELSE {})
       \cup
       { [err |-> FALSE, gateways |-> GatewayMap(items),
          cache |-> MapPut(cache, namespace, GatewayMap(items)), called |-> TRUE]
         : items \in IF cancelled \/ cluster.silent THEN {} ELSE cluster.gwLists }

\* hostsCompatible, the test of one pair of hosts:
\* hostMatches(gwHost, vsHost) || hostMatches(vsHost, gwHost).
HostPairMatches ==
  /\ hostPair.out = "none"
  /\ hostPair' = [hostPair EXCEPT
                    !.out = IF \/ hostMatches(hostPair.gwHost, hostPair.vsHost)
                               \/ hostMatches(hostPair.vsHost, hostPair.gwHost)
                            THEN "match" ELSE "no match"]
  /\ UNCHANGED << main, cluster, cancelled, vpc, vtickC, resolverVars >>
  /\ UNCHANGED << cycles, loops >>
  /\ UNCHANGED << heap, targets, readers >>
  /\ UNCHANGED pipelineVars
  /\ UNCHANGED readerVars

\* The VirtualServices still to visit: update's loop passes over one that has
\* no reference to visit.
RECURSIVE SkipNoRefs(_)
SkipNoRefs(items) ==
  IF items = << >> THEN << >>
  ELSE IF GatewayRefs(Head(items)) = << >> THEN SkipNoRefs(Tail(items))
  ELSE items

\* update returns: its locals die, Run goes (back) to its select; after the
\* first update Run creates its ticker.
VsReturns(err, outcome, h) ==
  /\ vret' = err
  /\ vpc' = "select"
  /\ vticker' = TRUE
  /\ vNamespaces' = << >>
  /\ vNsName' = ""
  /\ vVsItems' = << >>
  /\ vRefs' = << >>
  /\ gatewayCache' = NoMap
  /\ vhist' = [h EXCEPT !.outcome = outcome]

\* Mutant of VsListNamespacesFail: the attempt is counted only when the
\* namespaces could be listed.
VsListNamespacesFailUncounted ==
  /\ vpc \in {"first", "update"}
  /\ cycles < MaxCycles
  /\ cycles' = cycles + 1
  /\ loops' = [loops EXCEPT !["resolver"].started = @ + 1]
  /\ updateCount' = updateCount
  /\ VsReturns([kind |-> "list namespaces"], "namespaces", [NoVsHist EXCEPT !.before = gauge])
  /\ UNCHANGED << gauge, vtickC >>
  /\ UNCHANGED pipelineVars
  /\ UNCHANGED readerVars
  /\ UNCHANGED << main, cluster, hostPair, cancelled >>

\* Mutant of VsListNamespacesFail: the gauge is reset before the namespaces
\* are listed.
VsListNamespacesFailResets ==
  /\ vpc \in {"first", "update"}
  /\ cycles < MaxCycles
  /\ cycles' = cycles + 1
  /\ loops' = [loops EXCEPT !["resolver"].started = @ + 1]
  /\ updateCount' = updateCount + 1
  /\ gauge' = NoMap
  /\ VsReturns([kind |-> "list namespaces"], "namespaces", [NoVsHist EXCEPT !.before = gauge])
  /\ UNCHANGED vtickC
  /\ UNCHANGED pipelineVars
  /\ UNCHANGED readerVars
  /\ UNCHANGED << main, cluster, hostPair, cancelled >>

\* Run calls update: updateCount.Inc(), then the namespaces with the label
\* "product" are listed.  The call fails: update returns the error.
VsListNamespacesFail ==
  /\ vpc \in {"first", "update"}
  /\ Returns("namespaces")
  /\ cycles < MaxCycles
  /\ cycles' = cycles + 1
  /\ loops' = [loops EXCEPT !["resolver"].started = @ + 1]
  /\ updateCount' = updateCount + 1
  /\ VsReturns([kind |-> "list namespaces"], "namespaces", [NoVsHist EXCEPT !.before = gauge])
  /\ UNCHANGED << gauge, vtickC >>
  /\ UNCHANGED pipelineVars
  /\ UNCHANGED readerVars
  /\ UNCHANGED << main, cluster, hostPair, cancelled >>

\* Mutant of VsListNamespacesOk: the gauge is not reset, the cycle sets its
\* series over the ones already there.
VsListNamespacesOkUpsert ==
  /\ vpc \in {"first", "update"}
  /\ cycles < MaxCycles
  /\ ~cancelled
  /\ cycles' = cycles + 1
  /\ loops' = [loops EXCEPT !["resolver"].started = @ + 1]
  /\ updateCount' = updateCount + 1
  /\ \E l \in SubSeqs(cluster.vsNamespaces) : vNamespaces' = l
  /\ gauge' = gauge
  /\ gatewayCache' = NoMap
  /\ vpc' = "nsloop"
  /\ vhist' = [NoVsHist EXCEPT !.before = gauge, !.outcome = "running"]
  /\ UNCHANGED << vticker, vtickC, vNsName, vVsItems, vRefs, vret >>
  /\ UNCHANGED pipelineVars
  /\ UNCHANGED readerVars
  /\ UNCHANGED << main, cluster, hostPair, cancelled >>

\* The call succeeds: c.metric.Reset(), a fresh gatewayCache, then the loop
\* over namespaces.Items.
VsListNamespacesOk ==
  /\ vpc \in {"first", "update"}
  /\ ~cluster.silent
  /\ cycles < MaxCycles
  /\ ~cancelled
  /\ cycles' = cycles + 1
  /\ loops' = [loops EXCEPT !["resolver"].started = @ + 1]
  /\ updateCount' = updateCount + 1
  /\ \E l \in SubSeqs(cluster.vsNamespaces) : vNamespaces' = l
  /\ gauge' = NoMap
  /\ gatewayCache' = NoMap
  /\ vpc' = "nsloop"
  /\ vhist' = [NoVsHist EXCEPT !.before = gauge, !.outcome = "running"]
  /\ UNCHANGED << vticker, vtickC, vNsName, vVsItems, vRefs, vret >>
  /\ UNCHANGED pipelineVars
  /\ UNCHANGED readerVars
  /\ UNCHANGED << main, cluster, hostPair, cancelled >>

\* The history after a call of ensureGatewaysCached with outcome o.
Ensured(h, namespace, o) ==
  IF ~o.called THEN h
  ELSE [h EXCEPT
          !.calls = MapPut(@, namespace,
                           IF namespace \in DOMAIN @ THEN @[namespace] + 1 ELSE 1),
          !.gws = IF o.err THEN @ ELSE MapPut(@, namespace, o.gateways)]

\* Top of the loop over the namespaces: ensureGatewaysCached for the
\* namespace itself fails, update returns the error.
VsEnsureFail ==
  /\ vpc = "nsloop"
  /\ vNamespaces # << >>
  /\ \E o \in ensureGatewaysCached(Str(Head(vNamespaces)), gatewayCache) :
       /\ o.err
       /\ VsReturns([kind |-> "list gateways"], "gateways",
                    Ensured(vhist, Str(Head(vNamespaces)), o))
  /\ UNCHANGED << updateCount, gauge, vtickC >>
  /\ UNCHANGED << cycles, loops >>
  /\ UNCHANGED pipelineVars
  /\ UNCHANGED readerVars
  /\ UNCHANGED << main, cluster, hostPair, cancelled >>

\* ... succeeds: the VirtualServices of the namespace are listed next.
VsEnsureOk ==
  /\ vpc = "nsloop"
  /\ vNamespaces # << >>
  /\ \E o \in ensureGatewaysCached(Str(Head(vNamespaces)), gatewayCache) :
       /\ ~o.err
       /\ gatewayCache' = o.cache
       /\ vhist' = Ensured(vhist, Str(Head(vNamespaces)), o)
  /\ vNsName' = Head(vNamespaces)
  /\ vNamespaces' = Tail(vNamespaces)
  /\ vpc' = "listvs"
  /\ UNCHANGED << updateCount, gauge, vticker, vtickC, vVsItems, vRefs, vret >>
  /\ UNCHANGED << cycles, loops >>
  /\ UNCHANGED pipelineVars
  /\ UNCHANGED readerVars
  /\ UNCHANGED << main, cluster, hostPair, cancelled >>

\* VirtualServices(nsName).List fails: update returns the error.
VsListVSFail ==
  /\ vpc = "listvs"
  /\ Returns("virtualservices")
  /\ VsReturns([kind |-> "list virtualservices"], "virtualservices", vhist)
  /\ UNCHANGED << updateCount, gauge, vtickC >>
  /\ UNCHANGED << cycles, loops >>
  /\ UNCHANGED pipelineVars
  /\ UNCHANGED readerVars
  /\ UNCHANGED << main, cluster, hostPair, cancelled >>

\* ... succeeds: the loop over vsList.Items, and for each its references.
VsListVSOk ==
  /\ vpc = "listvs"
  /\ ~cluster.silent
  /\ ~cancelled
  /\ \E items \in cluster.vsLists :
       LET todo == SkipNoRefs(items)
       IN  /\ vVsItems' = todo
           /\ vRefs' = IF todo = << >> THEN << >> ELSE GatewayRefs(Head(todo))
           /\ vpc' = IF todo = << >> THEN "nsloop" ELSE "refs"
           /\ vhist' = [vhist EXCEPT
                          !.listed = @ \cup { << vNsName, items[i] >> : i \in 1..Len(items) }]
  /\ UNCHANGED << updateCount, gauge, vticker, vtickC, vNamespaces, vNsName, gatewayCache,
                  vret >>
  /\ UNCHANGED << cycles, loops >>
  /\ UNCHANGED pipelineVars
  /\ UNCHANGED readerVars
  /\ UNCHANGED << main, cluster, hostPair, cancelled >>

\* The reference at hand needs the Gateways of its namespace.
NeedsGateways(gatewayRef) == gatewayRef # << >> /\ gatewayRef # mesh

\* A reference needs the Gateways of a namespace and ensureGatewaysCached
\* fails: update returns the error.
VsRefFail ==
  /\ vpc = "refs"
  /\ NeedsGateways(Head(vRefs))
  /\ LET p == ParseRef(vNsName, Head(vRefs))
     IN  \E o \in ensureGatewaysCached(p.gwNamespace, gatewayCache) :
           /\ o.err
           /\ VsReturns([kind |-> "list gateways"], "gateways",
                        Ensured(vhist, p.gwNamespace, o))
  /\ UNCHANGED << updateCount, gauge, vtickC >>
  /\ UNCHANGED << cycles, loops >>
  /\ UNCHANGED pipelineVars
  /\ UNCHANGED readerVars
  /\ UNCHANGED << main, cluster, hostPair, cancelled >>

\* Mutant of VsRefSet: a reference whose value is 0 gets no series.
VsRefSetOmitsZero ==
  /\ vpc = "refs"
  /\ LET vs == Head(vVsItems)
         gatewayRef == Head(vRefs)
         p == ParseRef(vNsName, gatewayRef)
         rest == IF Tail(vRefs) # << >> THEN vVsItems ELSE SkipNoRefs(Tail(vVsItems))
     IN  /\ IF NeedsGateways(gatewayRef)
            THEN \E o \in ensureGatewaysCached(p.gwNamespace, gatewayCache) :
                   /\ ~o.err
                   /\ gatewayCache' = o.cache
                   /\ vhist' = Ensured(vhist, p.gwNamespace, o)
                   /\ gauge' = IF RefValue(vs, o.gateways, p.gwName) = 0 THEN gauge
                               ELSE MapPut(gauge, << vNsName, vs.name, gatewayRef >>, 1)
            ELSE /\ gauge' = IF gatewayRef = << >> THEN gauge
                             ELSE MapPut(gauge, << vNsName, vs.name, gatewayRef >>, 1)
                 /\ UNCHANGED << gatewayCache, vhist >>
         /\ vVsItems' = rest
         /\ vRefs' = IF Tail(vRefs) # << >> THEN Tail(vRefs)
                     ELSE IF rest = << >> THEN << >> ELSE GatewayRefs(Head(rest))
         /\ vpc' = IF rest = << >> THEN "nsloop" ELSE "refs"
  /\ UNCHANGED << updateCount, vticker, vtickC, vNamespaces, vNsName, vret >>
  /\ UNCHANGED << cycles, loops >>
  /\ UNCHANGED pipelineVars
  /\ UNCHANGED readerVars
  /\ UNCHANGED << main, cluster, hostPair, cancelled >>

\* One reference of one VirtualService: its value is computed and
\* c.metric.WithLabelValues(nsName, vs.GetName(), labelGateway).Set(value).
VsRefSet ==
  /\ vpc = "refs"
  /\ LET vs == Head(vVsItems)
         gatewayRef == Head(vRefs)
         p == ParseRef(vNsName, gatewayRef)
         rest == IF Tail(vRefs) # << >> THEN vVsItems ELSE SkipNoRefs(Tail(vVsItems))
     IN  /\ IF NeedsGateways(gatewayRef)
            THEN \E o \in ensureGatewaysCached(p.gwNamespace, gatewayCache) :
                   /\ ~o.err
                   /\ gatewayCache' = o.cache
                   /\ vhist' = Ensured(vhist, p.gwNamespace, o)
                   /\ gauge' = MapPut(gauge, << vNsName, vs.name, gatewayRef >>,
                                      RefValue(vs, o.gateways, p.gwName))
            ELSE /\ gauge' = MapPut(gauge, << vNsName, vs.name, gatewayRef >>,
                                    IF gatewayRef = << >> THEN 0 ELSE 1)
                 /\ UNCHANGED << gatewayCache, vhist >>
         /\ vVsItems' = rest
         /\ vRefs' = IF Tail(vRefs) # << >> THEN Tail(vRefs)
                     ELSE IF rest = << >> THEN << >> ELSE GatewayRefs(Head(rest))
         /\ vpc' = IF rest = << >> THEN "nsloop" ELSE "refs"
  /\ UNCHANGED << updateCount, vticker, vtickC, vNamespaces, vNsName, vret >>
  /\ UNCHANGED << cycles, loops >>
  /\ UNCHANGED pipelineVars
  /\ UNCHANGED readerVars
  /\ UNCHANGED << main, cluster, hostPair, cancelled >>

\* The loop over the namespaces is done: update returns nil.
VsReturn ==
  /\ vpc = "nsloop"
  /\ vNamespaces = << >>
  /\ VsReturns(Nil, "ok", vhist)
  /\ UNCHANGED << updateCount, gauge, vtickC >>
  /\ UNCHANGED << cycles, loops >>
  /\ UNCHANGED pipelineVars
  /\ UNCHANGED readerVars
  /\ UNCHANGED << main, cluster, hostPair, cancelled >>

\* Mutant of VsTick: the tick is received and dropped, the loop goes on
\* waiting.
VsTickIdle ==
  /\ vpc = "select"
  /\ cycles < MaxCycles \/ cancelled
  /\ vtickC \/ ~cancelled
  /\ vtickC' = FALSE
  /\ vpc' = "select"
  /\ loops' = [loops EXCEPT !["resolver"].ticks = @ + 1,
                            !["resolver"].late = IF cancelled THEN @ + 1 ELSE @]
  /\ UNCHANGED << heap, targets, readers, pc, nsList, curNs, pods, newFamilies, errs, ret,
                  cycles, scrapes, tickC, hist >>
  /\ UNCHANGED readerVars
  /\ UNCHANGED << main, cluster, hostPair, cancelled, resolverVars >>

\* The select of the resolver's loop takes a tick.
VsTick ==
  /\ vpc = "select"
  /\ cycles < MaxCycles \/ cancelled
  /\ vtickC \/ ~cancelled
  /\ vtickC' = FALSE
  /\ vpc' = "update"
  /\ loops' = [loops EXCEPT !["resolver"].ticks = @ + 1,
                            !["resolver"].late = IF cancelled THEN @ + 1 ELSE @]
  /\ UNCHANGED << heap, targets, readers, pc, nsList, curNs, pods, newFamilies, errs, ret,
                  cycles, scrapes, tickC, hist >>
  /\ UNCHANGED readerVars
  /\ UNCHANGED << main, cluster, hostPair, cancelled, resolverVars >>

\* The resolver's ticker puts a tick into its channel while update runs.
VsTickerFires ==
  /\ vticker
  /\ vpc \in {"update", "nsloop", "listvs", "refs"}
  /\ ~vtickC
  /\ vtickC' = TRUE
  /\ UNCHANGED scraperVars
  /\ UNCHANGED << heap, targets, readers >>
  /\ UNCHANGED readerVars
  /\ UNCHANGED << main, cluster, hostPair, cancelled, vpc, resolverVars >>

\* The select takes ctx.Done(): Run returns.
VsStop ==
  /\ vpc = "select"
  /\ cancelled
  /\ vpc' = "returned"
  /\ UNCHANGED scraperVars
  /\ UNCHANGED << heap, targets, readers >>
  /\ UNCHANGED readerVars
  /\ UNCHANGED << main, cluster, hostPair, cancelled, vtickC, resolverVars >>

\* -------------------------------------------------------------------- main
\* SIGINT or SIGTERM arrives: the context of signal.NotifyContext is done.
\* From here on every call made with the context fails.
Cancel ==
  /\ ~cancelled
  /\ cancelled' = TRUE
  /\ UNCHANGED scraperVars
  /\ UNCHANGED << heap, targets, readers >>
  /\ UNCHANGED readerVars
  /\ UNCHANGED << main, cluster, hostPair, vpc, vtickC, resolverVars >>

\* ---------------------------------------------------------- store: reader
\* Mutant of MergeClones: a name the result already has is overwritten by the
\* clone instead of extended.
RECURSIVE MergeClonesOverwrite(_, _, _, _)
MergeClonesOverwrite(h, result, families, names) ==
  IF names = {} THEN [heap |-> h, result |-> result]
  ELSE LET name == CHOOSE n \in names : TRUE
           a    == Alloc(h, "snapshot", name)
       IN  MergeClonesOverwrite(MapPut(h, a, h[families[name]]), MapPut(result, name, a),
                                families, names \ {name})

\* Mutant of MergeClones: the first family of a name goes into the result as it
\* is stored, without the clone; what is appended later is appended to it.
RECURSIVE MergeClonesAliasing(_, _, _, _)
MergeClonesAliasing(h, result, families, names) ==
  IF names = {} THEN [heap |-> h, result |-> result]
  ELSE LET name == CHOOSE n \in names : TRUE
       IN  IF name \in DOMAIN result
           THEN MergeClonesAliasing([h EXCEPT ![result[name]].metric = @ \o h[families[name]].metric],
                                    result, families, names \ {name})
           ELSE MergeClonesAliasing(h, MapPut(result, name, families[name]),
                                    families, names \ {name})

\* snapshot's inner loop over one target's families: every family is cloned;
\* a name the result already has gets the clone's metrics appended, a new name
\* gets the clone.  Returns the new heap and result map.
RECURSIVE MergeClones(_, _, _, _)
MergeClones(h, result, families, names) ==
  IF names = {} THEN [heap |-> h, result |-> result]
  ELSE LET name        == CHOOSE n \in names : TRUE
           familyClone == h[families[name]]
           a           == Alloc(h, "snapshot", name)
       IN  IF name \in DOMAIN result
           THEN MergeClones([h EXCEPT ![result[name]].metric = @ \o familyClone.metric],
                            result, families, names \ {name})
           ELSE MergeClones(MapPut(h, a, familyClone), MapPut(result, name, a),
                            families, names \ {name})

\* snapshot is called on a store no target has been put into: it takes and
\* releases the read lock and returns nil.
SnapshotEmpty ==
  /\ rpc \in {"idle", "done"}
  /\ DOMAIN targets = {}
  /\ rpc' = "done"
  /\ UNCHANGED << heap, targets, readers, rVisited, rResult, hBase >>
  /\ UNCHANGED << resp, scraperVars >>
  /\ UNCHANGED worldVars

\* snapshot takes mu.RLock and makes the result map.
SnapshotLock ==
  /\ rpc \in {"idle", "done"}
  /\ DOMAIN targets # {}
  /\ readers' = readers + 1
  /\ rpc' = "range"
  /\ hBase' = DerefAll(heap, targets)
  /\ UNCHANGED << heap, targets, rVisited, rResult >>
  /\ UNCHANGED << resp, scraperVars >>
  /\ UNCHANGED worldVars

\* One iteration of the range over s.targets (Go visits the targets in an
\* unspecified order).
SnapshotVisit(t) ==
  /\ rpc = "range"
  /\ t \in DOMAIN targets
  /\ \A i \in 1..Len(rVisited) : rVisited[i] # t
  /\ LET r == MergeClones(heap, rResult, targets[t], DOMAIN targets[t])
     IN  /\ heap' = r.heap
         /\ rResult' = r.result
  /\ rVisited' = Append(rVisited, t)
  /\ UNCHANGED << targets, readers, rpc, hBase >>
  /\ UNCHANGED << resp, scraperVars >>
  /\ UNCHANGED worldVars

\* The range is over: the deferred RUnlock runs and the result, as it stands,
\* is returned to the caller.  snapshot's locals die with the return; what the
\* caller does with the clones touches nothing of the store.
SnapshotReturn ==
  /\ rpc = "range"
  /\ \A t \in DOMAIN targets : \E i \in 1..Len(rVisited) : rVisited[i] = t
  /\ readers' = readers - 1
  /\ rpc' = "done"
  /\ rVisited' = << >>
  /\ rResult' = NoMap
  /\ hBase' = << >>
  /\ heap' = GC(heap, targets, newFamilies, NoMap)
  /\ UNCHANGED targets
  /\ UNCHANGED << resp, scraperVars >>
  /\ UNCHANGED worldVars

\* -------------------------------------------------------------- exposition
\* The family names of the model in ascending lexicographic order, the order
\* sort.Strings puts them in.
NameOrder == << "bar", "foo", "go_goroutines" >>

\* sort.Strings over the names of a set.
SortStrings(S) == SelectSeq(NameOrder, LAMBDA n : n \in S)

Reverse(q) == [i \in 1..Len(q) |-> q[Len(q) + 1 - i]]

\* A line of the text exposition format.
HelpLine(f)      == [kind |-> "help", name |-> f.name, text |-> f.help, label |-> << >>, value |-> 0]
TypeLine(f)      == [kind |-> "type", name |-> f.name, text |-> f.type, label |-> << >>, value |-> 0]
SampleLine(f, m) == [kind |-> "sample", name |-> f.name, text |-> "", label |-> m.label, value |-> m.value]
TextLine(t)      == [kind |-> "text", name |-> "", text |-> t, label |-> << >>, value |-> 0]

\* The sample lines of a family, up to the first metric that does not hold a
\* value of the family's type: there the encoder gives up with an error.
RECURSIVE EncodeMetrics(_, _)
EncodeMetrics(f, ms) ==
  IF ms = << >> THEN [err |-> FALSE, lines |-> << >>]
  ELSE IF Head(ms).kind # f.type THEN [err |-> TRUE, lines |-> << >>]
  ELSE LET rest == EncodeMetrics(f, Tail(ms))
       IN  [err |-> rest.err, lines |-> << SampleLine(f, Head(ms)) >> \o rest.lines]

\* encoder.Encode of one family in the text format: an error for a family
\* without metrics, else the HELP and TYPE lines and the samples.
Encode(f) ==
  IF f.metric = << >> THEN [err |-> TRUE, lines |-> << >>]
  ELSE LET ms == EncodeMetrics(f, f.metric)
       IN  [err |-> ms.err, lines |-> << HelpLine(f), TypeLine(f) >> \o ms.lines]

\* Encoding families one after the other into one writer, until one fails.
RECURSIVE EncodeAll(_)
EncodeAll(fs) ==
  IF fs = << >> THEN [err |-> FALSE, lines |-> << >>]
  ELSE LET e == Encode(Head(fs))
       IN  IF e.err THEN e
           ELSE LET rest == EncodeAll(Tail(fs))
                IN  [err |-> rest.err, lines |-> e.lines \o rest.lines]

\* Mutant of WriteAll: the families are encoded in the order the map hands
\* out its keys, here the descending one.
WriteAllMapOrder(combined) ==
  LET names == Reverse(SortStrings(DOMAIN combined))
  IN  EncodeAll([i \in 1..Len(names) |-> combined[names[i]]])

\* Mutant of WriteAll: a view without families is reported as an error.
WriteAllRequiresFamilies(combined) ==
  LET names == SortStrings(DOMAIN combined)
  IN  IF names = << >> THEN [err |-> TRUE, lines |-> << >>]
      ELSE EncodeAll([i \in 1..Len(names) |-> combined[names[i]]])

\* Store.WriteAll on what snapshot returned: nothing for an empty view, else
\* the families in the order of their sorted names.
WriteAll(combined) ==
  LET names == SortStrings(DOMAIN combined)
  IN  EncodeAll([i \in 1..Len(names) |-> combined[names[i]]])

\* prometheus.DefaultGatherer.Gather(): the families of the default registry,
\* sorted by name.  No VirtualService collector is registered in the
\* deployments modelled with the handler; the Go collector is.
Gather ==
  << [name |-> "go_goroutines", help |-> "Number of goroutines that currently exist.",
      type |-> "gauge", metric |-> << Smp("gauge", << >>, 7) >>] >>

\* Mutant of Respond: the encoders write to the ResponseWriter itself, so what
\* was encoded before a failure has already gone out.
RespondStreaming(combined) ==
  LET g == EncodeAll(Gather)
      w == WriteAll(combined)
  IN  [ served   |-> TRUE,
        status   |-> IF g.err \/ w.err THEN "500" ELSE "200",
        body     |-> IF g.err THEN g.lines \o << TextLine("failed to encode metrics") >>
                     ELSE IF w.err
                          THEN g.lines \o w.lines \o << TextLine("failed to render metrics") >>
                          ELSE g.lines \o w.lines,
        out      |-> IF g.err THEN << >> ELSE w.lines,
        werr     |-> ~g.err /\ w.err,
        gerr     |-> FALSE,
        eerr     |-> g.err,
        series   |-> << >>,
        cycle    |-> 0,
        putSince |-> FALSE ]

\* The /metrics handler around Store.WriteAll: the registry's families are
\* encoded into the buffer, WriteAll adds the store's, and the buffer is
\* written out; an error of either part answers 500 and drops the buffer.
Respond(combined) ==
  LET g == EncodeAll(Gather)
      w == WriteAll(combined)
  IN  [ served   |-> TRUE,
        status   |-> IF g.err \/ w.err THEN "500" ELSE "200",
        body     |-> IF g.err THEN << TextLine("failed to encode metrics") >>
                     ELSE IF w.err THEN << TextLine("failed to render metrics") >>
                     ELSE g.lines \o w.lines,
        out      |-> IF g.err THEN << >> ELSE w.lines,
        werr     |-> ~g.err /\ w.err,
        gerr     |-> FALSE,
        eerr     |-> g.err,
        series   |-> << >>,
        cycle    |-> 0,
        putSince |-> FALSE ]

\* A request for /metrics whose Gather returns an error: the handler answers
\* 500 and returns before it encodes anything or calls Store.WriteAll.
GatherFail ==
  /\ rpc \in {"idle", "done"}
  /\ rpc' = "done"
  /\ resp' = [ served   |-> TRUE,
               status   |-> "500",
               body     |-> << TextLine("failed to gather metrics") >>,
               out      |-> << >>,
               werr     |-> FALSE,
               gerr     |-> TRUE,
               eerr     |-> FALSE,
               series   |-> << >>,
               cycle    |-> 0,
               putSince |-> FALSE ]
  /\ UNCHANGED << heap, targets, readers, rVisited, rResult, hBase >>
  /\ UNCHANGED scraperVars
  /\ UNCHANGED worldVars

\* A request for /metrics finds the store without a target: snapshot returns
\* nil, WriteAll writes nothing, the response is the registry's families.
ServeEmpty ==
  /\ rpc \in {"idle", "done"}
  /\ DOMAIN targets = {}
  /\ rpc' = "done"
  /\ resp' = Respond(NoMap)
  /\ UNCHANGED << heap, targets, readers, rVisited, rResult, hBase >>
  /\ UNCHANGED scraperVars
  /\ UNCHANGED worldVars

\* The range of snapshot is over for a request for /metrics: the deferred
\* RUnlock runs, WriteAll encodes what snapshot returned and the handler
\* answers.  The clones are garbage after that.
Serve ==
  /\ rpc = "range"
  /\ \A t \in DOMAIN targets : \E i \in 1..Len(rVisited) : rVisited[i] = t
  /\ readers' = readers - 1
  /\ rpc' = "done"
  /\ resp' = Respond(Deref(heap, rResult))
  /\ rVisited' = << >>
  /\ rResult' = NoMap
  /\ hBase' = << >>
  /\ heap' = GC(heap, targets, newFamilies, NoMap)
  /\ UNCHANGED targets
  /\ UNCHANGED scraperVars
  /\ UNCHANGED worldVars

\* A request for /metrics in a deployment that runs the resolver: Gather calls
\* Collect, which sends the series the GaugeVec holds at that moment (the vec
\* is locked for the one call, not for a cycle of update) and the counter.
Collect ==
  /\ rpc \in {"idle", "done"}
  /\ vpc # "off"
  /\ rpc' = "done"
  /\ resp' = [NoResp EXCEPT !.served = TRUE, !.status = "200",
                            !.series = gauge, !.cycle = updateCount]
  /\ UNCHANGED << heap, targets, readers, rVisited, rResult, hBase >>
  /\ UNCHANGED scraperVars
  /\ UNCHANGED worldVars

\* The API server and the pods stop answering: from now on a call waits for
\* its peer until its context is done or its timeout runs out.
Partition ==
  /\ ~cluster.silent
  /\ cluster' = [cluster EXCEPT !.silent = TRUE]
  /\ UNCHANGED << heap, targets, readers >>
  /\ UNCHANGED scraperVars
  /\ UNCHANGED readerVars
  /\ UNCHANGED << main, hostPair, cancelled, vpc, vtickC, resolverVars >>

\* ------------------------------------------------------------ config, main
\* time.ParseDuration on the spellings of the model: an optional sign, decimal
\* digits and the unit s or m; "0" needs no unit.  The value is in seconds.
DigitValue(c) ==
  CASE c = "0" -> 0 [] c = "1" -> 1 [] c = "2" -> 2 [] c = "3" -> 3 [] c = "4" -> 4
    [] c = "5" -> 5 [] c = "6" -> 6 [] c = "7" -> 7 [] c = "8" -> 8 [] c = "9" -> 9
    [] OTHER -> 0 - 1

RECURSIVE Decimal(_)
Decimal(digits) ==
  IF digits = << >> THEN 0
  ELSE 10 * Decimal(SubSeq(digits, 1, Len(digits) - 1)) + DigitValue(digits[Len(digits)])

ParseDuration(str) ==
  LET neg    == str # << >> /\ Head(str) = "-"
      body   == IF str # << >> /\ Head(str) \in {"-", "+"} THEN Tail(str) ELSE str
      digits == SubSeq(body, 1, Len(body) - 1)
      unit   == body[Len(body)]
  IN  IF body = << "0" >> THEN [err |-> FALSE, d |-> 0]
      ELSE IF \/ Len(body) < 2
              \/ unit \notin {"s", "m"}
              \/ \E i \in 1..Len(digits) : DigitValue(digits[i]) < 0
      THEN [err |-> TRUE, d |-> 0]
      ELSE [err |-> FALSE,
            d |-> (IF neg THEN 0 - 1 ELSE 1) * Decimal(digits) * (IF unit = "m" THEN 60 ELSE 1)]

\* An error of Load, with the index of the target it names (0: none).
ConfigError(msg, i) == [kind |-> msg, index |-> i]

\* convertRaw, the loop over raw.ProductMetrics from target i on.
RECURSIVE convertTargets(_, _)
convertTargets(rawTargets, i) ==
  IF i > Len(rawTargets) THEN [err |-> Nil, targets |-> << >>]
  ELSE LET target == rawTargets[i]
           p      == ParseDuration(target.interval)
       IN  IF target.interval = << >>
           THEN [err |-> ConfigError("productMetrics.interval is required", i), targets |-> << >>]
           ELSE IF p.err
           THEN [err |-> ConfigError("parse productMetrics.interval", i), targets |-> << >>]
           ELSE LET rest == convertTargets(rawTargets, i + 1)
                IN  [err |-> rest.err,
                     targets |-> << [ Name |-> target.name, Interval |-> p.d,
                                      Port |-> target.port, Path |-> target.path,
                                      NamespaceSelector |-> target.namespaceSelector,
                                      PodSelector |-> target.podSelector ] >> \o rest.targets]

\* convertRaw: the durations are parsed, the rest is copied.
convertRaw(raw) ==
  LET p == ParseDuration(raw.virtualServiceInterval)
      t == convertTargets(raw.productMetrics, 1)
  IN  IF raw.virtualServiceInterval = << >>
      THEN [err |-> ConfigError("virtualServiceInterval is required", 0), cfg |-> NoConfig]
      ELSE IF p.err
      THEN [err |-> ConfigError("parse virtualServiceInterval", 0), cfg |-> NoConfig]
      ELSE IF t.err # Nil THEN [err |-> t.err, cfg |-> NoConfig]
      ELSE [err |-> Nil,
            cfg |-> [ ListenAddress |-> raw.listenAddress,
                      InternalMetricsAddress |-> raw.internalMetricsAddress,
                      VirtualServiceInterval |-> p.d,
                      EnableVirtualServiceScrapeJob |-> raw.enableVirtualServiceScrapeJob,
                      ProductMetrics |-> t.targets ]]

\* validate, the loop over c.ProductMetrics from target i on.
RECURSIVE validateTargets(_, _)
validateTargets(ts, i) ==
  IF i > Len(ts) THEN Nil
  ELSE LET target == ts[i]
       IN  IF target.Name = "" THEN ConfigError("productMetrics.name is required", i)
           ELSE IF target.Interval <= 0
           THEN ConfigError("productMetrics.interval must be positive", i)
           ELSE IF target.Port <= 0 THEN ConfigError("productMetrics.port must be positive", i)
           ELSE IF target.Path = "" THEN ConfigError("productMetrics.path is required", i)
           ELSE IF target.NamespaceSelector = ""
           THEN ConfigError("productMetrics.namespaceSelector is required", i)
           ELSE IF target.PodSelector = ""
           THEN ConfigError("productMetrics.podSelector is required", i)
           ELSE validateTargets(ts, i + 1)

\* Mutant of validate: a configuration without targets is accepted.
validateAllowsNoTargets(c) ==
  IF c.ListenAddress = "" THEN ConfigError("listenAddress is required", 0)
  ELSE IF c.InternalMetricsAddress = ""
  THEN ConfigError("internalMetricsAddress is required", 0)
  ELSE IF c.VirtualServiceInterval <= 0
  THEN ConfigError("virtualServiceInterval must be positive", 0)
  ELSE validateTargets(c.ProductMetrics, 1)

\* Config.validate: the first complaint, or nil.
validate(c) ==
  IF c.ListenAddress = "" THEN ConfigError("listenAddress is required", 0)
  ELSE IF c.InternalMetricsAddress = ""
  THEN ConfigError("internalMetricsAddress is required", 0)
  ELSE IF c.VirtualServiceInterval <= 0
  THEN ConfigError("virtualServiceInterval must be positive", 0)
  ELSE IF Len(c.ProductMetrics) = 0
  THEN ConfigError("productMetrics must contain at least one target", 0)
  ELSE validateTargets(c.ProductMetrics, 1)

\* Load, from the unmarshalled file on: convertRaw, then validate.
Load(raw) ==
  LET c == convertRaw(raw)
  IN  IF c.err # Nil THEN [cfg |-> NoConfig, err |-> c.err]
      ELSE IF validate(c.cfg) # Nil THEN [cfg |-> NoConfig, err |-> validate(c.cfg)]
      ELSE [cfg |-> c.cfg, err |-> Nil]

\* What no step of main touches.
loopVars == << cluster, heap, targets, readers, cancelled, vpc, vtickC, hostPair >>

\* main: config.Load returns an error, Fatalf logs it and exits the process.
LoadFail ==
  /\ main.pc = "load"
  /\ Load(main.raw).err # Nil
  /\ main' = [main EXCEPT !.pc = "exited", !.err = Load(main.raw).err]
  /\ UNCHANGED << loopVars, scraperVars, readerVars, resolverVars >>

\* main: config.Load returns the configuration.
LoadOk ==
  /\ main.pc = "load"
  /\ Load(main.raw).err = Nil
  /\ main' = [main EXCEPT !.pc = "resolver", !.cfg = Load(main.raw).cfg]
  /\ UNCHANGED << loopVars, scraperVars, readerVars, resolverVars >>

\* main: the resolver's goroutine is started if the job is enabled.
StartResolver ==
  /\ main.pc = "resolver"
  /\ main' = [main EXCEPT !.pc = "scrapers",
                          !.resolver = main.cfg.EnableVirtualServiceScrapeJob]
  /\ UNCHANGED << loopVars, scraperVars, readerVars, resolverVars >>

\* main: the next iteration of the range over cfg.ProductMetrics makes a
\* Scraper with target.Name and starts its goroutine.
StartScraper ==
  /\ main.pc = "scrapers"
  /\ Len(main.scrapers) < Len(main.cfg.ProductMetrics)
  /\ main' = [main EXCEPT
                !.scrapers = Append(@, main.cfg.ProductMetrics[Len(main.scrapers) + 1].Name)]
  /\ UNCHANGED << loopVars, scraperVars, readerVars, resolverVars >>

\* main: the range is over (or there is no target), the servers are started.
StartServing ==
  /\ main.pc = "scrapers"
  /\ Len(main.scrapers) = Len(main.cfg.ProductMetrics)
  /\ main' = [main EXCEPT !.pc = "serving"]
  /\ UNCHANGED << loopVars, scraperVars, readerVars, resolverVars >>

\* The scraper started i-th ends a cycle: s.store.Replace(s.targetName, ...).
\* Of the snapshot only its publisher is kept.
ScraperReplace(i) ==
  /\ i \in 1..Len(main.scrapers)
  /\ main' = [main EXCEPT !.store = Replace(@, main.scrapers[i], i)]
  /\ UNCHANGED << loopVars, scraperVars, readerVars, resolverVars >>

\* ------------------------------------------------------------------- spec
\* The pipeline at work: every configured target's scraper is started, each
\* namespace of the cluster runs at most one pod.
Init ==
  /\ cluster = Cluster(PodNames, Payloads, << >>, {}, {})
  /\ heap = << >>
  /\ targets = << >>
  /\ readers = 0
  /\ main = NoMain
  /\ pc = [t \in TargetIDs |-> "scrape"]
  /\ nsList = [t \in TargetIDs |-> << >>]
  /\ curNs = [t \in TargetIDs |-> ""]
  /\ pods = [t \in TargetIDs |-> << >>]
  /\ newFamilies = [t \in TargetIDs |-> NoMap]
  /\ errs = [t \in TargetIDs |-> << >>]
  /\ ret = [t \in TargetIDs |-> [kind |-> "none"]]
  /\ cycles = 0
  /\ scrapes = 0
  /\ tickC = [t \in TargetIDs |-> FALSE]
  /\ cancelled = FALSE
  /\ vpc = "off"
  /\ vtickC = FALSE
  /\ vticker = FALSE
  /\ updateCount = 0
  /\ gauge = NoMap
  /\ vNamespaces = << >>
  /\ vNsName = ""
  /\ vVsItems = << >>
  /\ vRefs = << >>
  /\ gatewayCache = NoMap
  /\ vret = [kind |-> "none"]
  /\ vhist = NoVsHist
  /\ hostPair = NoPair
  /\ rpc = "idle"
  /\ rVisited = << >>
  /\ rResult = NoMap
  /\ resp = NoResp
  /\ hist = [t \in TargetIDs |-> NoHist]
  /\ hBase = << >>
  /\ loops = [l \in Loops |-> NoLoop]

Next ==
  \/ \E t \in TargetIDs : ListNamespacesFail(t)
  \/ \E t \in TargetIDs : ListNamespacesOk(t)
  \/ \E t \in TargetIDs : ListPodsFail(t)
  \/ \E t \in TargetIDs : ListPodsOk(t)
  \/ \E t \in TargetIDs : ScrapePodFail(t)
  \/ \E t \in TargetIDs : ScrapePodOk(t)
  \/ \E t \in TargetIDs : Publish(t)
  \/ \E t \in TargetIDs : Tick(t)
  \/ SnapshotEmpty
  \/ SnapshotLock
  \/ \E t \in TargetIDs : SnapshotVisit(t)
  \/ SnapshotReturn

Spec == Init /\ [][Next]_vars

\* The pipeline behind the exposition endpoint: as Init, in a cluster whose pods
\* all run the same Go program; every read of the store is a request for
\* /metrics.
InitServe ==
  /\ cluster = Cluster(PodNames, {PayloadGo}, << >>, {}, {})
  /\ heap = << >>
  /\ targets = << >>
  /\ readers = 0
  /\ main = NoMain
  /\ pc = [t \in TargetIDs |-> "scrape"]
  /\ nsList = [t \in TargetIDs |-> << >>]
  /\ curNs = [t \in TargetIDs |-> ""]
  /\ pods = [t \in TargetIDs |-> << >>]
  /\ newFamilies = [t \in TargetIDs |-> NoMap]
  /\ errs = [t \in TargetIDs |-> << >>]
  /\ ret = [t \in TargetIDs |-> [kind |-> "none"]]
  /\ cycles = 0
  /\ scrapes = 0
  /\ tickC = [t \in TargetIDs |-> FALSE]
  /\ cancelled = FALSE
  /\ vpc = "off"
  /\ vtickC = FALSE
  /\ vticker = FALSE
  /\ updateCount = 0
  /\ gauge = NoMap
  /\ vNamespaces = << >>
  /\ vNsName = ""
  /\ vVsItems = << >>
  /\ vRefs = << >>
  /\ gatewayCache = NoMap
  /\ vret = [kind |-> "none"]
  /\ vhist = NoVsHist
  /\ hostPair = NoPair
  /\ rpc = "idle"
  /\ rVisited = << >>
  /\ rResult = NoMap
  /\ resp = NoResp
  /\ hist = [t \in TargetIDs |-> NoHist]
  /\ hBase = << >>
  /\ loops = [l \in Loops |-> NoLoop]

NextServe ==
  \/ \E t \in TargetIDs : ListNamespacesFail(t)
  \/ \E t \in TargetIDs : ListNamespacesOk(t)
  \/ \E t \in TargetIDs : ListPodsFail(t)
  \/ \E t \in TargetIDs : ListPodsOk(t)
  \/ \E t \in TargetIDs : ScrapePodFail(t)
  \/ \E t \in TargetIDs : ScrapePodOk(t)
  \/ \E t \in TargetIDs : Publish(t)
  \/ \E t \in TargetIDs : Tick(t)
  \/ ServeEmpty
  \/ SnapshotLock
  \/ \E t \in TargetIDs : SnapshotVisit(t)
  \/ Serve

SpecServe == InitServe /\ [][NextServe]_vars

\* The exposition endpoint of a deployment with one configured target, alpha,
\* in a cluster whose pods serve families of different types under one name;
\* Gather may fail.
InitHandler ==
  /\ cluster = Cluster(PodNames, Payloads, << >>, {}, {})
  /\ heap = << >>
  /\ targets = << >>
  /\ readers = 0
  /\ main = NoMain
  /\ pc = [t \in TargetIDs |-> IF t = "alpha" THEN "scrape" ELSE "off"]
  /\ nsList = [t \in TargetIDs |-> << >>]
  /\ curNs = [t \in TargetIDs |-> ""]
  /\ pods = [t \in TargetIDs |-> << >>]
  /\ newFamilies = [t \in TargetIDs |-> NoMap]
  /\ errs = [t \in TargetIDs |-> << >>]
  /\ ret = [t \in TargetIDs |-> [kind |-> "none"]]
  /\ cycles = 0
  /\ scrapes = 0
  /\ tickC = [t \in TargetIDs |-> FALSE]
  /\ cancelled = FALSE
  /\ vpc = "off"
  /\ vtickC = FALSE
  /\ vticker = FALSE
  /\ updateCount = 0
  /\ gauge = NoMap
  /\ vNamespaces = << >>
  /\ vNsName = ""
  /\ vVsItems = << >>
  /\ vRefs = << >>
  /\ gatewayCache = NoMap
  /\ vret = [kind |-> "none"]
  /\ vhist = NoVsHist
  /\ hostPair = NoPair
  /\ rpc = "idle"
  /\ rVisited = << >>
  /\ rResult = NoMap
  /\ resp = NoResp
  /\ hist = [t \in TargetIDs |-> NoHist]
  /\ hBase = << >>
  /\ loops = [l \in Loops |-> NoLoop]

NextHandler ==
  \/ \E t \in TargetIDs : ListNamespacesFail(t)
  \/ \E t \in TargetIDs : ListNamespacesOk(t)
  \/ \E t \in TargetIDs : ListPodsFail(t)
  \/ \E t \in TargetIDs : ListPodsOk(t)
  \/ \E t \in TargetIDs : ScrapePodFail(t)
  \/ \E t \in TargetIDs : ScrapePodOk(t)
  \/ \E t \in TargetIDs : Publish(t)
  \/ \E t \in TargetIDs : Tick(t)
  \/ GatherFail
  \/ ServeEmpty
  \/ SnapshotLock
  \/ \E t \in TargetIDs : SnapshotVisit(t)
  \/ Serve

SpecHandler == InitHandler /\ [][NextHandler]_vars

\* The loops of the process and its shutdown: both scrapers and the resolver
\* (EnableVirtualServiceScrapeJob is set) run until the context is done, in a
\* cluster without a namespace labelled "product";
\* nobody reads the store.
InitRun ==
  /\ cluster = Cluster(PodNames, {PayloadA}, << >>, {}, {})
  /\ heap = << >>
  /\ targets = << >>
  /\ readers = 0
  /\ main = NoMain
  /\ pc = [t \in TargetIDs |-> "scrape"]
  /\ nsList = [t \in TargetIDs |-> << >>]
  /\ curNs = [t \in TargetIDs |-> ""]
  /\ pods = [t \in TargetIDs |-> << >>]
  /\ newFamilies = [t \in TargetIDs |-> NoMap]
  /\ errs = [t \in TargetIDs |-> << >>]
  /\ ret = [t \in TargetIDs |-> [kind |-> "none"]]
  /\ cycles = 0
  /\ scrapes = 0
  /\ tickC = [t \in TargetIDs |-> FALSE]
  /\ cancelled = FALSE
  /\ vpc = "first"
  /\ vtickC = FALSE
  /\ vticker = FALSE
  /\ updateCount = 0
  /\ gauge = NoMap
  /\ vNamespaces = << >>
  /\ vNsName = ""
  /\ vVsItems = << >>
  /\ vRefs = << >>
  /\ gatewayCache = NoMap
  /\ vret = [kind |-> "none"]
  /\ vhist = NoVsHist
  /\ hostPair = NoPair
  /\ rpc = "idle"
  /\ rVisited = << >>
  /\ rResult = NoMap
  /\ resp = NoResp
  /\ hist = [t \in TargetIDs |-> NoHist]
  /\ hBase = << >>
  /\ loops = [l \in Loops |-> NoLoop]

NextRun ==
  \/ \E t \in TargetIDs : ListNamespacesFail(t)
  \/ \E t \in TargetIDs : ListNamespacesOk(t)
  \/ \E t \in TargetIDs : ListPodsFail(t)
  \/ \E t \in TargetIDs : ListPodsOk(t)
  \/ \E t \in TargetIDs : ScrapePodFail(t)
  \/ \E t \in TargetIDs : ScrapePodOk(t)
  \/ \E t \in TargetIDs : Publish(t)
  \/ \E t \in TargetIDs : Tick(t)
  \/ \E t \in TargetIDs : TickerFires(t)
  \/ \E t \in TargetIDs : Stop(t)
  \/ VsListNamespacesFail
  \/ VsListNamespacesOk
  \/ VsReturn
  \/ VsTick
  \/ VsTickerFires
  \/ VsStop
  \/ Cancel

SpecRun == InitRun /\ [][NextRun]_vars

\* The resolver alone: no target is configured, one namespace has the label
\* "product"; nobody reads the registry.
InitVs ==
  /\ cluster = Cluster(PodNames, {}, << "ns-a" >>, VsLists, GwLists)
  /\ heap = << >>
  /\ targets = << >>
  /\ readers = 0
  /\ main = NoMain
  /\ pc = [t \in TargetIDs |-> "off"]
  /\ nsList = [t \in TargetIDs |-> << >>]
  /\ curNs = [t \in TargetIDs |-> ""]
  /\ pods = [t \in TargetIDs |-> << >>]
  /\ newFamilies = [t \in TargetIDs |-> NoMap]
  /\ errs = [t \in TargetIDs |-> << >>]
  /\ ret = [t \in TargetIDs |-> [kind |-> "none"]]
  /\ cycles = 0
  /\ scrapes = 0
  /\ tickC = [t \in TargetIDs |-> FALSE]
  /\ cancelled = FALSE
  /\ vpc = "first"
  /\ vtickC = FALSE
  /\ vticker = FALSE
  /\ updateCount = 0
  /\ gauge = NoMap
  /\ vNamespaces = << >>
  /\ vNsName = ""
  /\ vVsItems = << >>
  /\ vRefs = << >>
  /\ gatewayCache = NoMap
  /\ vret = [kind |-> "none"]
  /\ vhist = NoVsHist
  /\ hostPair = NoPair
  /\ rpc = "idle"
  /\ rVisited = << >>
  /\ rResult = NoMap
  /\ resp = NoResp
  /\ hist = [t \in TargetIDs |-> NoHist]
  /\ hBase = << >>
  /\ loops = [l \in Loops |-> NoLoop]

NextVs ==
  \/ VsListNamespacesFail
  \/ VsListNamespacesOk
  \/ VsEnsureFail
  \/ VsEnsureOk
  \/ VsListVSFail
  \/ VsListVSOk
  \/ VsRefFail
  \/ VsRefSet
  \/ VsReturn
  \/ VsTick

SpecVs == InitVs /\ [][NextVs]_vars

\* The loops and their peers: the scraper of one configured target and the
\* resolver run, no cancellation is raised, and at some moment the API server
\* and the pods may stop answering for good.
InitSilent ==
  /\ cluster = Cluster(PodNames, {PayloadA}, << "ns-a" >>, {<< VsBare >>}, {<< GwWild >>})
  /\ heap = << >>
  /\ targets = << >>
  /\ readers = 0
  /\ main = NoMain
  /\ pc = [t \in TargetIDs |-> IF t = "alpha" THEN "scrape" ELSE "off"]
  /\ nsList = [t \in TargetIDs |-> << >>]
  /\ curNs = [t \in TargetIDs |-> ""]
  /\ pods = [t \in TargetIDs |-> << >>]
  /\ newFamilies = [t \in TargetIDs |-> NoMap]
  /\ errs = [t \in TargetIDs |-> << >>]
  /\ ret = [t \in TargetIDs |-> [kind |-> "none"]]
  /\ cycles = 0
  /\ scrapes = 0
  /\ tickC = [t \in TargetIDs |-> FALSE]
  /\ cancelled = FALSE
  /\ vpc = "first"
  /\ vtickC = FALSE
  /\ vticker = FALSE
  /\ updateCount = 0
  /\ gauge = NoMap
  /\ vNamespaces = << >>
  /\ vNsName = ""
  /\ vVsItems = << >>
  /\ vRefs = << >>
  /\ gatewayCache = NoMap
  /\ vret = [kind |-> "none"]
  /\ vhist = NoVsHist
  /\ hostPair = NoPair
  /\ rpc = "idle"
  /\ rVisited = << >>
  /\ rResult = NoMap
  /\ resp = NoResp
  /\ hist = [t \in TargetIDs |-> NoHist]
  /\ hBase = << >>
  /\ loops = [l \in Loops |-> NoLoop]

NextSilent ==
  \/ \E t \in TargetIDs : ListNamespacesFail(t)
  \/ \E t \in TargetIDs : ListNamespacesOk(t)
  \/ \E t \in TargetIDs : ListPodsFail(t)
  \/ \E t \in TargetIDs : ListPodsOk(t)
  \/ \E t \in TargetIDs : ScrapePodFail(t)
  \/ \E t \in TargetIDs : ScrapePodOk(t)
  \/ \E t \in TargetIDs : Publish(t)
  \/ \E t \in TargetIDs : Tick(t)
  \/ VsListNamespacesFail
  \/ VsListNamespacesOk
  \/ VsEnsureFail
  \/ VsEnsureOk
  \/ VsListVSFail
  \/ VsListVSOk
  \/ VsRefFail
  \/ VsRefSet
  \/ VsReturn
  \/ VsTick
  \/ Partition

SpecSilent == InitSilent /\ [][NextSilent]_vars

\* The resolver beside the exposition endpoint: as SpecVs, with requests for
\* /metrics at any moment of a cycle.
NextCollect == NextVs \/ Collect

SpecCollect == InitVs /\ [][NextCollect]_vars

\* The host test alone, on every pair of hosts.
InitHost ==
  /\ cluster = Cluster(PodNames, {}, << >>, {}, {})
  /\ heap = << >>
  /\ targets = << >>
  /\ readers = 0
  /\ main = NoMain
  /\ pc = [t \in TargetIDs |-> "off"]
  /\ nsList = [t \in TargetIDs |-> << >>]
  /\ curNs = [t \in TargetIDs |-> ""]
  /\ pods = [t \in TargetIDs |-> << >>]
  /\ newFamilies = [t \in TargetIDs |-> NoMap]
  /\ errs = [t \in TargetIDs |-> << >>]
  /\ ret = [t \in TargetIDs |-> [kind |-> "none"]]
  /\ cycles = 0
  /\ scrapes = 0
  /\ tickC = [t \in TargetIDs |-> FALSE]
  /\ cancelled = FALSE
  /\ vpc = "off"
  /\ vtickC = FALSE
  /\ vticker = FALSE
  /\ updateCount = 0
  /\ gauge = NoMap
  /\ vNamespaces = << >>
  /\ vNsName = ""
  /\ vVsItems = << >>
  /\ vRefs = << >>
  /\ gatewayCache = NoMap
  /\ vret = [kind |-> "none"]
  /\ vhist = NoVsHist
  /\ \E v, g \in HostStrings : hostPair = [vsHost |-> v, gwHost |-> g, out |-> "none"]
  /\ rpc = "idle"
  /\ rVisited = << >>
  /\ rResult = NoMap
  /\ resp = NoResp
  /\ hist = [t \in TargetIDs |-> NoHist]
  /\ hBase = << >>
  /\ loops = [l \in Loops |-> NoLoop]

NextHost == HostPairMatches

SpecHost == InitHost /\ [][NextHost]_vars

\* The start of the process: main loads a configuration file of RawConfigs and,
\* if Load accepts it, starts the loops; the scrapers publish.
InitLoad ==
  /\ cluster = Cluster(PodNames, {}, << >>, {}, {})
  /\ heap = << >>
  /\ targets = << >>
  /\ readers = 0
  /\ \E raw \in RawConfigs : main = [NoMain EXCEPT !.pc = "load", !.raw = raw]
  /\ pc = [t \in TargetIDs |-> "off"]
  /\ nsList = [t \in TargetIDs |-> << >>]
  /\ curNs = [t \in TargetIDs |-> ""]
  /\ pods = [t \in TargetIDs |-> << >>]
  /\ newFamilies = [t \in TargetIDs |-> NoMap]
  /\ errs = [t \in TargetIDs |-> << >>]
  /\ ret = [t \in TargetIDs |-> [kind |-> "none"]]
  /\ cycles = 0
  /\ scrapes = 0
  /\ tickC = [t \in TargetIDs |-> FALSE]
  /\ cancelled = FALSE
  /\ vpc = "off"
  /\ vtickC = FALSE
  /\ vticker = FALSE
  /\ updateCount = 0
  /\ gauge = NoMap
  /\ vNamespaces = << >>
  /\ vNsName = ""
  /\ vVsItems = << >>
  /\ vRefs = << >>
  /\ gatewayCache = NoMap
  /\ vret = [kind |-> "none"]
  /\ vhist = NoVsHist
  /\ hostPair = NoPair
  /\ rpc = "idle"
  /\ rVisited = << >>
  /\ rResult = NoMap
  /\ resp = NoResp
  /\ hist = [t \in TargetIDs |-> NoHist]
  /\ hBase = << >>
  /\ loops = [l \in Loops |-> NoLoop]

NextLoad ==
  \/ LoadFail
  \/ LoadOk
  \/ StartResolver
  \/ StartScraper
  \/ StartServing
  \/ \E i \in 1..2 : ScraperReplace(i)

SpecLoad == InitLoad /\ [][NextLoad]_vars

\* One configured target, in a cluster whose namespaces run up to two pods;
\* nobody reads the store.
PodNames2 == << "pod-0", "pod-1" >>

InitCycle ==
  /\ cluster = Cluster(PodNames2, Payloads, << >>, {}, {})
  /\ heap = << >>
  /\ targets = << >>
  /\ readers = 0
  /\ main = NoMain
  /\ pc = [t \in TargetIDs |-> IF t = "alpha" THEN "scrape" ELSE "off"]
  /\ nsList = [t \in TargetIDs |-> << >>]
  /\ curNs = [t \in TargetIDs |-> ""]
  /\ pods = [t \in TargetIDs |-> << >>]
  /\ newFamilies = [t \in TargetIDs |-> NoMap]
  /\ errs = [t \in TargetIDs |-> << >>]
  /\ ret = [t \in TargetIDs |-> [kind |-> "none"]]
  /\ cycles = 0
  /\ scrapes = 0
  /\ tickC = [t \in TargetIDs |-> FALSE]
  /\ cancelled = FALSE
  /\ vpc = "off"
  /\ vtickC = FALSE
  /\ vticker = FALSE
  /\ updateCount = 0
  /\ gauge = NoMap
  /\ vNamespaces = << >>
  /\ vNsName = ""
  /\ vVsItems = << >>
  /\ vRefs = << >>
  /\ gatewayCache = NoMap
  /\ vret = [kind |-> "none"]
  /\ vhist = NoVsHist
  /\ hostPair = NoPair
  /\ rpc = "idle"
  /\ rVisited = << >>
  /\ rResult = NoMap
  /\ resp = NoResp
  /\ hist = [t \in TargetIDs |-> NoHist]
  /\ hBase = << >>
  /\ loops = [l \in Loops |-> NoLoop]

NextCycle ==
  \/ \E t \in TargetIDs : ListNamespacesFail(t)
  \/ \E t \in TargetIDs : ListNamespacesOk(t)
  \/ \E t \in TargetIDs : ListPodsFail(t)
  \/ \E t \in TargetIDs : ListPodsOk(t)
  \/ \E t \in TargetIDs : ScrapePodFail(t)
  \/ \E t \in TargetIDs : ScrapePodOk(t)
  \/ \E t \in TargetIDs : Publish(t)
  \/ \E t \in TargetIDs : Tick(t)

SpecCycle == InitCycle /\ [][NextCycle]_vars


\* ------------------------------------------------- vocabulary of the claims
FamilyNames == {"foo", "bar"}

\* The store's content by value: target -> family name -> family.
StoreVal == DerefAll(heap, targets)

\* What the store holds of one target: whether it has an entry, the map and the
\* families the map points to.
StoreOf(u) ==
  IF u \in DOMAIN targets
  THEN [present |-> TRUE, map |-> targets[u], val |-> Deref(heap, targets[u])]
  ELSE [present |-> FALSE, map |-> << >>, val |-> << >>]

\* ScrapeOnce has returned to Run, which waits in its select.
Returned(t) == pc[t] = "select"

\* ... from a cycle whose namespace discovery succeeded.
Completed(t) == Returned(t) /\ hist[t].disc = "ok"

\* The namespaces whose pod-list call failed in t's cycle.
ListFailedNs(t) ==
  { hist[t].listed[i][1] : i \in { j \in 1..Len(hist[t].listed) : hist[t].listed[j][2] = "failed" } }

\* The pods whose scrape succeeded in t's cycle.
OkPods(t) == { << hist[t].ok[i][1], hist[t].ok[i][2] >> : i \in 1..Len(hist[t].ok) }

\* The snapshot that a sequence of successful scrapes amounts to, by value:
\* families of one name concatenated in scrape order under the metadata of the
\* first, every sample labelled with the namespace of its pod.
RECURSIVE MergeOf(_)
MergeOf(oks) ==
  IF oks = << >> THEN << >>
  ELSE LET prev   == MergeOf(SubSeq(oks, 1, Len(oks) - 1))
           e      == oks[Len(oks)]
           fam(n) == cloneAndLabelFamily(e[3][n], e[1])
       IN  [n \in (DOMAIN prev) \cup (DOMAIN e[3]) |->
              IF n \notin DOMAIN prev THEN fam(n)
              ELSE IF n \in DOMAIN e[3]
                   THEN [prev[n] EXCEPT !.metric = @ \o fam(n).metric]
                   ELSE prev[n]]

\* The number of samples of family n that a sequence of successful scrapes parsed.
RECURSIVE SamplesParsed(_, _)
SamplesParsed(oks, n) ==
  IF oks = << >> THEN 0
  ELSE SamplesParsed(Tail(oks), n) +
       (IF n \in DOMAIN Head(oks)[3] THEN Len(Head(oks)[3][n].metric) ELSE 0)

\* The namespace each sample of family n was scraped from, in scrape order.
RECURSIVE Origins(_, _)
Origins(oks, n) ==
  IF oks = << >> THEN << >>
  ELSE (IF n \in DOMAIN Head(oks)[3]
        THEN [k \in 1..Len(Head(oks)[3][n].metric) |-> Head(oks)[1]]
        ELSE << >>) \o Origins(Tail(oks), n)

\* The positions of the labels of a sample that are called "namespace".
NsLabels(m) == { j \in 1..Len(m.label) : m.label[j].name = namespaceLabelKey }

\* The merge of the snapshots of base, visited in the given order, by value.
RECURSIVE MergedVal(_, _)
MergedVal(base, order) ==
  IF order = << >> THEN << >>
  ELSE LET prev == MergedVal(base, SubSeq(order, 1, Len(order) - 1))
           last == order[Len(order)]
           snap == IF last \in DOMAIN base THEN base[last] ELSE << >>
       IN  [n \in (DOMAIN prev) \cup (DOMAIN snap) |->
              IF n \notin DOMAIN prev THEN snap[n]
              ELSE IF n \in DOMAIN snap
                   THEN [prev[n] EXCEPT !.metric = @ \o snap[n].metric]
                   ELSE prev[n]]

\* The number of samples of family n over the snapshots of the targets in S.
RECURSIVE SamplesStored(_, _, _)
SamplesStored(sv, S, n) ==
  IF S = {} THEN 0
  ELSE LET t == CHOOSE x \in S : TRUE
       IN  SamplesStored(sv, S \ {t}, n) +
           (IF n \in DOMAIN sv[t] THEN Len(sv[t][n].metric) ELSE 0)

\* The objects the store's snapshots and the scrapers' accumulators point to.
StoredAddrs ==
  UNION { Range(targets[t]) : t \in DOMAIN targets } \cup
  UNION { Range(newFamilies[t]) : t \in TargetIDs }

\* The step in which scraper t issues its Replace.
PutStep(t) == hist'[t].puts = hist[t].puts + 1

\* A step of the reader.
ReadStep == rpc' # rpc \/ rVisited' # rVisited

\* The samples of family n that a sequence of successful scrapes parsed, each
\* labelled with the namespace of its pod, in scrape order.
RECURSIVE SamplesOf(_, _)
SamplesOf(oks, n) ==
  IF oks = << >> THEN << >>
  ELSE (IF n \in DOMAIN Head(oks)[3]
        THEN [i \in 1..Len(Head(oks)[3][n].metric) |->
                LabelMetric(Head(oks)[3][n].metric[i], Head(oks)[1])]
        ELSE << >>) \o SamplesOf(Tail(oks), n)

\* The step in which scraper t's loop over pods.Items moves on.
PodStep(t) == pc[t] = "loop" /\ pods[t] # << >> /\ pods'[t] # pods[t]

\* The step in which scraper t lists the pods of a namespace.
ListStep(t) == pc[t] = "loop" /\ Len(hist'[t].listed) = Len(hist[t].listed) + 1

\* The step in which a request for /metrics is answered.
ServeStep == rpc' = "done" /\ (rpc = "range" \/ DOMAIN targets = {})

\* The place of a family name in the lexicographic order.
Rank(n) == CHOOSE i \in 1..Len(NameOrder) : NameOrder[i] = n

\* The family names of an exposition, in the order of their TYPE lines.
NamesOut(lines) ==
  LET isType(l) == l.kind = "type"
      ts        == SelectSeq(lines, isType)
  IN  [i \in 1..Len(ts) |-> ts[i].name]

StrictlyAscending(q) == \A i, j \in 1..Len(q) : i < j => Rank(q[i]) < Rank(q[j])

\* snapshot's range loop has visited every target and still holds the lock.
RangeDone == rpc = "range" /\ { rVisited[i] : i \in 1..Len(rVisited) } = DOMAIN targets


\* ------------------------------------------------------------------ claims
\* C1: a cycle whose namespace-list call fails returns a non-nil error, issues
\* no Replace, and leaves the store's content for every target as it was.
C1_AbortedCycleKeepsCatalog ==
  [][\A t \in TargetIDs :
       (pc[t] = "scrape" /\ hist'[t].disc = "failed")
         => /\ pc'[t] = "select"
            /\ ret'[t] # Nil
            /\ ret'[t].kind = "list namespaces"
            /\ hist'[t].puts = 0
            /\ \A u \in TargetIDs : StoreOf(u)' = StoreOf(u)]_vars

\* C1 witness: a target that had published "foo" with 3 samples is back in Run
\* from a cycle that failed to list the namespaces.
C1_Witness ==
  \E t \in TargetIDs :
    /\ Returned(t) /\ hist[t].disc = "failed"
    /\ t \in DOMAIN targets /\ "foo" \in DOMAIN targets[t]
    /\ Len(heap[targets[t]["foo"]].metric) = 3

\* C2: a cycle whose namespace discovery succeeded issues exactly one Replace,
\* whatever failed in it, and publishes the merge of exactly the scrapes that
\* succeeded; no Replace only when discovery failed; never more than one.
C2_OnePutPerDiscoveredCycle ==
  \A t \in TargetIDs :
    /\ hist[t].puts <= 1
    /\ pc[t] = "loop" => hist[t].puts = 0
    /\ Completed(t) =>
         /\ hist[t].puts = 1
         /\ t \in DOMAIN targets
         /\ Deref(heap, targets[t]) = MergeOf(hist[t].ok)
    /\ (Returned(t) /\ hist[t].puts = 0) => hist[t].disc = "failed"

\* C2 witness: a cycle with a failure and a successful scrape has published.
C2_Witness ==
  \E t \in TargetIDs :
    /\ Completed(t) /\ hist[t].puts = 1
    /\ ret[t] # Nil
    /\ hist[t].ok # << >>

\* C3: when the pod list of namespace A fails, the cycle records exactly one
\* error for A, scrapes no pod of A, still lists every other discovered
\* namespace and scrapes each of its eligible pods, and publishes the merge of
\* the other namespaces' pods only.
C3_PodListFailureSkipsNamespace ==
  \A t \in TargetIDs :
    Completed(t) =>
      /\ [i \in 1..Len(hist[t].listed) |-> hist[t].listed[i][1]] = hist[t].ns
      /\ \A A \in ListFailedNs(t) :
           /\ ret[t].kind = "join"
           /\ Cardinality({ i \in 1..Len(ret[t].errs) : ret[t].errs[i].ns = A }) = 1
           /\ \A q \in hist[t].eligible \cup hist[t].failed \cup OkPods(t) : q[1] # A
      /\ \A q \in hist[t].eligible : q \in hist[t].failed \cup OkPods(t)
      /\ LET fromOthers(e) == e[1] \notin ListFailedNs(t)
         IN  Deref(heap, targets[t]) = MergeOf(SelectSeq(hist[t].ok, fromOthers))

\* C3 witness: the pod list of ns-a failed, a pod of ns-b was scraped and its
\* families are published.
C3_Witness ==
  \E t \in TargetIDs :
    /\ Completed(t)
    /\ "ns-a" \in ListFailedNs(t)
    /\ \E i \in 1..Len(hist[t].ok) : hist[t].ok[i][1] = "ns-b"
    /\ DOMAIN targets[t] # {}

\* C4: a pod whose scrape fails adds exactly one error and no family or sample;
\* every eligible pod of the cycle is scraped, and the published families hold
\* the samples of the successful scrapes, no more and no fewer.
C4_FailedPodContributesNothing ==
  \A t \in TargetIDs :
    Completed(t) =>
      /\ \A q \in hist[t].failed :
           /\ ret[t].kind = "join"
           /\ Cardinality({ i \in 1..Len(ret[t].errs) :
                              ret[t].errs[i] = [kind |-> "scrape pod", ns |-> q[1], pod |-> q[2]] }) = 1
           /\ q \notin OkPods(t)
      /\ hist[t].eligible = hist[t].failed \cup OkPods(t)
      /\ \A n \in FamilyNames :
           /\ n \in DOMAIN targets[t] <=> SamplesParsed(hist[t].ok, n) > 0
           /\ n \in DOMAIN targets[t] =>
                Len(heap[targets[t][n]].metric) = SamplesParsed(hist[t].ok, n)

\* C4 witness: one pod failed, another was scraped and is published.
C4_Witness ==
  \E t \in TargetIDs :
    /\ Completed(t)
    /\ hist[t].failed # {}
    /\ hist[t].ok # << >>
    /\ DOMAIN targets[t] # {}

\* C5: ScrapeOnce returns nil exactly when discovery succeeded and nothing
\* failed; a cycle that was not aborted and had failures returns the join of
\* one error per failed pod list and one per failed pod; an aborted cycle returns
\* the namespace-list error.
C5_ReturnAggregatesEveryFailure ==
  \A t \in TargetIDs :
    Returned(t) =>
      /\ ret[t] = Nil <=>
           (hist[t].disc = "ok" /\ ListFailedNs(t) = {} /\ hist[t].failed = {})
      /\ hist[t].disc = "failed" => ret[t].kind = "list namespaces"
      /\ (hist[t].disc = "ok" /\ ret[t] # Nil) =>
           /\ ret[t].kind = "join"
           /\ Len(ret[t].errs) = Cardinality(ListFailedNs(t)) + Cardinality(hist[t].failed)
           /\ \A A \in ListFailedNs(t) :
                \E i \in 1..Len(ret[t].errs) :
                  ret[t].errs[i] = [kind |-> "list pods", ns |-> A, pod |-> ""]
           /\ \A q \in hist[t].failed :
                \E i \in 1..Len(ret[t].errs) :
                  ret[t].errs[i] = [kind |-> "scrape pod", ns |-> q[1], pod |-> q[2]]

\* C5 witness: a cycle returns the join of a pod-list error and a scrape error.
C5_Witness ==
  \E t \in TargetIDs :
    /\ Completed(t)
    /\ ListFailedNs(t) # {}
    /\ hist[t].failed # {}
    /\ ret[t].kind = "join" /\ Len(ret[t].errs) = 2

\* C6: every sample stored has exactly one "namespace" label; in the snapshot a
\* cycle published its value is the namespace of the pod the sample was
\* scraped from, whatever the payload said.
C6_NamespaceLabelIsSource ==
  \A t \in DOMAIN targets :
    \A n \in DOMAIN targets[t] :
      LET metric == heap[targets[t][n]].metric
          from   == Origins(hist[t].ok, n)
      IN  /\ \A i \in 1..Len(metric) : Cardinality(NsLabels(metric[i])) = 1
          /\ Completed(t) =>
               /\ Len(metric) = Len(from)
               /\ \A i \in 1..Len(metric) :
                    \A j \in NsLabels(metric[i]) : metric[i].label[j].value = from[i]

\* C6 witness: a pod of ns-b served a sample labelled namespace="ns-a", and the
\* cycle has published it.
C6_Witness ==
  \E t \in TargetIDs :
    /\ Completed(t)
    /\ \E i \in 1..Len(hist[t].ok) :
         hist[t].ok[i][1] = "ns-b" /\ hist[t].ok[i][3] = PayloadB
    /\ "foo" \in DOMAIN targets[t]


\* C7: a Replace for a target leaves the store holding, for that target,
\* exactly the families of the new snapshot: nothing of the snapshot it
\* overwrote stays, and an empty snapshot leaves the target with no family.
C7_PutReplacesWholeSnapshot ==
  [][\A t \in TargetIDs :
       hist'[t].puts = hist[t].puts + 1
         => /\ StoreOf(t)'.present
            /\ StoreOf(t)'.map = newFamilies[t]
            /\ StoreOf(t)'.val = Deref(heap, newFamilies[t])]_vars

\* C7 witness: a target that had "foo" in the store has published an empty
\* snapshot and has no family left.
C7_Witness ==
  \E t \in TargetIDs :
    /\ Completed(t)
    /\ hist[t].prev.present /\ "foo" \in hist[t].prev.names
    /\ DOMAIN targets[t] = {}

\* C8: what the store holds of a target changes only in a step in which that
\* target's own scraper issues its Replace: no Replace of another target and no
\* read touches it.
C8_PutTouchesOnlyItsTarget ==
  [][\A u \in TargetIDs :
       StoreOf(u)' # StoreOf(u) => hist'[u].puts = hist[u].puts + 1]_vars

\* C8 witness: both targets have published a non-empty snapshot and the two
\* snapshots differ.
C8_Witness ==
  \E t, u \in DOMAIN targets :
    /\ t # u
    /\ DOMAIN targets[t] # {} /\ DOMAIN targets[u] # {}
    /\ Deref(heap, targets[t]) # Deref(heap, targets[u])
    /\ hist[t].puts = 1 /\ hist[u].puts = 1

\* C9: while Replace calls wait for the lock or go ahead on other targets'
\* accumulators, what a read has built, up to the result it returns when the
\* range is over, is the merge of the snapshots the visited targets had when the
\* read lock was taken, each as a whole; the result it returns covers every
\* target the store had then; and no Replace lands while the read is under way.
C9_ReadSeesSnapshotsAtLock ==
  rpc = "range" =>
    /\ Deref(heap, rResult) = MergedVal(hBase, rVisited)
    /\ RangeDone => { rVisited[i] : i \in 1..Len(rVisited) } = DOMAIN hBase
    /\ StoreVal = hBase

\* C9 witness: a read has merged the stored snapshot of a target whose scraper
\* stands at its Replace with a different snapshot.
C9_Witness ==
  /\ RangeDone
  /\ \E t \in DOMAIN targets :
       /\ pc[t] = "loop" /\ nsList[t] = << >> /\ pods[t] = << >>
       /\ DOMAIN targets[t] # {}
       /\ DOMAIN newFamilies[t] # {}
       /\ Deref(heap, newFamilies[t]) # Deref(heap, targets[t])

\* C10: when the range loop is over, the merged view has exactly the family
\* names that some target's current snapshot has, each with as many samples as
\* the targets' snapshots have of that name together; the view of an empty
\* store has no family.
C10_MergedCountsAreSums ==
  /\ RangeDone =>
       \A n \in FamilyNames :
         /\ n \in DOMAIN rResult <=> \E t \in DOMAIN targets : n \in DOMAIN targets[t]
         /\ n \in DOMAIN rResult =>
              Len(heap[rResult[n]].metric) = SamplesStored(StoreVal, DOMAIN targets, n)
  /\ DOMAIN rResult \subseteq FamilyNames
  /\ DOMAIN targets = {} => DOMAIN rResult = {}

\* C10 witness: two targets both hold "foo" and the merged view has their 3
\* samples.
C10_Witness ==
  /\ RangeDone
  /\ \E t, u \in DOMAIN targets :
       t # u /\ "foo" \in DOMAIN targets[t] /\ "foo" \in DOMAIN targets[u]
  /\ "foo" \in DOMAIN rResult
  /\ Len(heap[rResult["foo"]].metric) = 3

\* C11: the merged view a read builds and returns points to no family object
\* that a stored snapshot or a scraper's accumulator points to (a family's sample
\* list is part of the family object); no step of the read, appending included,
\* changes what the store holds; no Replace changes what a read has built.
C11_ResultAliasesNothingStored ==
  [][/\ Range(rResult') \cap StoredAddrs' = {}
     /\ ReadStep => StoreVal' = StoreVal
     /\ \A t \in TargetIDs :
          PutStep(t) => Deref(heap', rResult') = Deref(heap, rResult)]_vars

\* C11 witness: the read has appended the "foo" samples of the target it
\* visited second to the clone of the first target's "foo", and the first
\* target's stored "foo" still has its own samples only.
C11_Witness ==
  /\ RangeDone
  /\ Len(rVisited) = 2
  /\ "foo" \in DOMAIN rResult
  /\ \A i \in 1..2 : "foo" \in DOMAIN targets[rVisited[i]]
  /\ Len(heap[rResult["foo"]].metric) > Len(heap[targets[rVisited[1]]["foo"]].metric)
  /\ rResult["foo"] \notin StoredAddrs

\* C12: a serialization of the merged view that follows another one with no
\* Replace between them, over a store of two or more targets, writes what the
\* other one wrote: the same lines in the same order.
C12_SerializationIsDeterministic ==
  [][(ServeStep /\ resp.served /\ ~resp.putSince /\ Cardinality(DOMAIN targets) >= 2)
       => (resp'.out = resp.out /\ resp'.werr = resp.werr)]_vars

\* C13: what WriteAll writes names the families in strictly ascending order,
\* hence each once; when it returns no error these are the families of the
\* merged view, each with its HELP and TYPE line and all its samples.
C13_WriteAllSortsByName ==
  [][ServeStep =>
       LET combined == Deref(heap, rResult)
           names    == NamesOut(resp'.out)
       IN  /\ StrictlyAscending(names)
           /\ { names[i] : i \in 1..Len(names) } \subseteq DOMAIN combined
           /\ ~resp'.werr =>
                /\ { names[i] : i \in 1..Len(names) } = DOMAIN combined
                /\ \A n \in DOMAIN combined :
                     Cardinality({ i \in 1..Len(resp'.out) :
                                     resp'.out[i].kind = "sample" /\ resp'.out[i].name = n })
                       = Len(combined[n].metric)]_vars

\* C13 witness: WriteAll has written two families, 4 samples in all, for a
\* store of two targets.
C13_Witness ==
  /\ resp.served /\ ~resp.werr
  /\ NamesOut(resp.out) = << "foo", "go_goroutines" >>
  /\ Len(resp.out) = 8
  /\ Cardinality(DOMAIN targets) = 2

\* C14: in the body of a 200 response of /metrics, the registry's families
\* followed by the store's, the family names are in strictly ascending order,
\* hence each at most once.
C14_BodyNamesAscendingOnce ==
  (resp.served /\ resp.status = "200") => StrictlyAscending(NamesOut(resp.body))

\* C15: in the snapshot a cycle publishes, a family name stands for one family,
\* whose samples are those of every successfully scraped pod that served the
\* name, in scrape order, all of them: two pods' samples with the same labels
\* and value are both there.
C15_InCycleMergeConcatenates ==
  \A t \in TargetIDs :
    Completed(t) =>
      \A n \in FamilyNames :
        LET want == SamplesOf(hist[t].ok, n)
        IN  IF want = << >>
            THEN n \notin DOMAIN targets[t]
            ELSE /\ n \in DOMAIN targets[t]
                 /\ heap[targets[t][n]].metric = want

\* C15 witness: two pods of one namespace served the same body, and the
\* published "foo" holds the two samples of each, the third equal to the first.
C15_Witness ==
  \E t \in TargetIDs :
    /\ Completed(t)
    /\ Len(hist[t].ok) = 2
    /\ hist[t].ok[1][1] = hist[t].ok[2][1]
    /\ hist[t].ok[1][2] # hist[t].ok[2][2]
    /\ hist[t].ok[1][3] = PayloadA /\ hist[t].ok[2][3] = PayloadA
    /\ Len(heap[targets[t]["foo"]].metric) = 4
    /\ heap[targets[t]["foo"]].metric[1] = heap[targets[t]["foo"]].metric[3]

\* C16: the pod of every request has an IP; the pods the loop passes over
\* without a request are those without one; passing over a pod, when the pods
\* are listed or after a scrape, issues no request, adds no error and leaves
\* the accumulator alone: an error added in a step names the pod scraped in it.
C16_PodWithoutIPIsSkipped ==
  [][\A t \in TargetIDs :
       /\ PodStep(t) =>
            LET gone == Len(pods[t]) - Len(pods'[t])
            IN  /\ Head(pods[t]).ip # ""
                /\ scrapes' = scrapes + 1
                /\ pods'[t] = SubSeq(pods[t], gone + 1, Len(pods[t]))
                /\ \A i \in 2..gone : pods[t][i].ip = ""
                /\ Len(errs'[t]) <= Len(errs[t]) + 1
                /\ \A i \in 1..Len(errs'[t]) :
                     i > Len(errs[t]) => errs'[t][i].pod = Head(pods[t]).name
       /\ ListStep(t) =>
            /\ scrapes' = scrapes
            /\ newFamilies'[t] = newFamilies[t] /\ heap' = heap
            /\ hist'[t].listed[Len(hist'[t].listed)][2] = "ok" => errs'[t] = errs[t]
       /\ pods'[t] # << >> => Head(pods'[t]).ip # ""]_vars

\* C16 witness: a namespace's pod-1 was scraped and pod-0 was not (pod lists
\* are prefixes of the pod names: pod-0 was listed, without an IP); the cycle
\* is over without an error, one request was issued and pod-1's samples are
\* what it published.
C16_Witness ==
  \E t \in TargetIDs :
    /\ Completed(t)
    /\ hist[t].eligible = { << "ns-a", "pod-1" >> }
    /\ OkPods(t) = { << "ns-a", "pod-1" >> }
    /\ hist[t].listed = << << "ns-a", "ok" >> >>
    /\ ret[t] = Nil
    /\ scrapes = 1
    /\ Deref(heap, targets[t]) = MergeOf(hist[t].ok)

\* C17: once the cancellation signal is raised, the families the store holds
\* for each target stay what they were at that moment, at whatever point of
\* a cycle the scrapers are.
C17_CancellationKeepsCatalog ==
  [][cancelled => \A u \in TargetIDs : StoreOf(u).val' = StoreOf(u).val]_vars

\* C18: after the cancellation signal no loop receives more than one further
\* tick: it finishes the cycle in flight, runs at most one more, and returns.
C18_AtMostOneTickAfterCancel ==
  \A l \in Loops : loops[l].late <= 1

\* C19: a loop makes its first call before it has received any tick, and
\* from then on one call per tick received: the calls made are the ticks
\* received, plus the first one once it is made.
C19_ImmediateThenOnePerTick ==
  /\ \A t \in TargetIDs :
       pc[t] # "off" =>
         loops[t].started = loops[t].ticks + (IF pc[t] = "scrape" THEN 0 ELSE 1)
  /\ vpc # "off" =>
       loops["resolver"].started =
         loops["resolver"].ticks + (IF vpc \in {"first", "update"} THEN 0 ELSE 1)

\* A scraper has run its first cycle and then a second one for the one tick
\* it received, while the resolver has not made its first call yet.
C19_Witness ==
  /\ loops["alpha"].started = 2
  /\ loops["alpha"].ticks = 1
  /\ pc["alpha"] = "select"
  /\ vpc = "first"

\* C20: a scraper never has more than one ScrapeOnce in progress; a Replace
\* is issued by the one call in progress, after its namespace list succeeded,
\* every namespace it returned had its pods listed and every listed pod with
\* an IP was scraped (and merged or recorded as failed); it belongs to the
\* last cycle started, which is later than the cycle of the previous Replace.
C20_CyclesOfATargetAreSequential ==
  [][\A t \in TargetIDs :
       /\ loops'[t].open <= 1
       /\ PutStep(t) =>
            /\ loops[t].open = 1
            /\ hist[t].disc = "ok"
            /\ nsList[t] = << >> /\ pods[t] = << >>
            /\ [i \in 1..Len(hist[t].listed) |-> hist[t].listed[i][1]] = hist[t].ns
            /\ hist[t].eligible = OkPods(t) \cup hist[t].failed
            /\ loops'[t].lastPut = loops[t].started
            /\ loops[t].lastPut < loops[t].started]_vars

\* The second cycle of a scraper has published what it scraped, and the
\* ticker fired while it ran: the cycle lasted longer than the interval.
C20_Witness ==
  /\ pc["alpha"] = "select"
  /\ loops["alpha"].started = 2
  /\ loops["alpha"].lastPut = 2
  /\ hist["alpha"].ok # << >>
  /\ tickC["alpha"]

\* A step in which Run calls update: a resolver cycle starts.
VsStartStep == vpc \in {"first", "update"} /\ vpc' \notin {"first", "update"}

\* C21: the update counter never decreases, goes up by exactly one in every
\* step that starts a resolver cycle (also one that ends at once on a list
\* failure) and in no other step; it equals the number of cycles started.
C21_UpdateCountCountsCycles ==
  [][/\ updateCount' >= updateCount
     /\ VsStartStep => updateCount' = updateCount + 1
     /\ ~VsStartStep => updateCount' = updateCount
     /\ updateCount' = loops'["resolver"].started]_vars

\* The second cycle has aborted on the namespace list: the counter is at
\* two.
C21_Witness ==
  /\ vpc = "select"
  /\ vret = [kind |-> "list namespaces"]
  /\ loops["resolver"].started = 2
  /\ updateCount = 2

\* C22: when the namespace list of a resolver cycle has failed, update has
\* returned an error and the gauge holds the series and values it held when
\* the cycle started.
C22_NamespaceFailureKeepsGauge ==
  vhist.outcome = "namespaces" =>
    /\ vpc \in {"select", "update"}
    /\ vret # Nil
    /\ gauge = vhist.before

\* A cycle has aborted on the namespace list while the gauge held series of
\* both values.
C22_Witness ==
  /\ vhist.outcome = "namespaces"
  /\ \E k1, k2 \in DOMAIN gauge : gauge[k1] = 0 /\ gauge[k2] = 1

\* C23: when a VirtualService list or a Gateway list of a resolver cycle has
\* failed, update has returned an error and the gauge holds the series and
\* values it held when the cycle started.
C23_ListFailureKeepsGauge ==
  vhist.outcome \in {"virtualservices", "gateways"} =>
    /\ vret # Nil
    /\ gauge = vhist.before

\* The Gateways a cycle's list call returned for a namespace; none when the
\* cycle did not list it.
ListedGateways(gws, namespace) ==
  IF namespace \in DOMAIN gws THEN gws[namespace] ELSE NoMap

\* The series a completed cycle owes: one per listed VirtualService and
\* reference of it ("mesh" when it has none), with the value that follows
\* from the Gateways listed in that cycle.
SeriesKeys(listed) ==
  UNION { { << l[1], l[2].name, GatewayRefs(l[2])[i] >> : i \in 1..Len(GatewayRefs(l[2])) }
          : l \in listed }

SeriesValue(nsName, vs, gatewayRef, gws) ==
  IF gatewayRef = mesh THEN 1
  ELSE IF gatewayRef = << >> THEN 0
  ELSE LET p == ParseRef(nsName, gatewayRef)
       IN  RefValue(vs, ListedGateways(gws, p.gwNamespace), p.gwName)

ExpectedGauge(listed, gws) ==
  [k \in SeriesKeys(listed) |->
     LET l == CHOOSE l \in listed : l[1] = k[1] /\ l[2].name = k[2]
     IN  SeriesValue(l[1], l[2], k[3], gws)]

\* C24: after a resolver cycle that completed without error the gauge holds
\* exactly the series of the VirtualServices listed in that cycle, each with
\* the value computed from that cycle's Gateways, and nothing else.
C24_CompletedCycleRepopulatesGauge ==
  vhist.outcome = "ok" => gauge = ExpectedGauge(vhist.listed, vhist.gws)

\* A completed cycle has dropped a series of the cycle before and holds
\* series of its own.
C24_Witness ==
  /\ vhist.outcome = "ok"
  /\ gauge # NoMap
  /\ \E k \in DOMAIN vhist.before : k \notin DOMAIN gauge

\* The series the gauge holds for one VirtualService.
SeriesOf(nsName, vsName) ==
  { k \in DOMAIN gauge : k[1] = nsName /\ k[2] = vsName }

\* C25: after a completed cycle, a listed VirtualService without gateway
\* references has exactly one series, its gateway label is "mesh" and its
\* value is 1.
C25_NoGatewaysMeansMesh ==
  vhist.outcome = "ok" =>
    \A l \in vhist.listed :
      l[2].gateways = << >> =>
        /\ SeriesOf(l[1], l[2].name) = { << l[1], l[2].name, << "mesh" >> >> }
        /\ gauge[<< l[1], l[2].name, << "mesh" >> >>] = 1

\* A VirtualService with a host and no gateways was listed in a namespace
\* that has a Gateway, beside a VirtualService whose series is 0.
C25_Witness ==
  /\ vhist.outcome = "ok"
  /\ << "ns-a", VsMesh >> \in vhist.listed
  /\ VsMesh.hosts # << >>
  /\ DOMAIN ListedGateways(vhist.gws, << "ns-a" >>) # {}
  /\ \E k \in DOMAIN gauge : gauge[k] = 0

\* A step in which update sets the series of the reference at hand.
VsSetStep == vpc = "refs" /\ vpc' \in {"refs", "nsloop"}

\* A reference of the form namespace/name.
Qualified(gatewayRef) == Len(gatewayRef) = 3 /\ gatewayRef[2] = "/"

\* C26: the step that handles a reference sets the series labelled with the
\* VirtualService's namespace, its name and the reference as written, and no
\* other; the value of a reference namespace/name is decided by the Gateway
\* called name among the Gateways listed for that namespace, the value of a
\* bare name by the Gateway of that name among those of the VirtualService's
\* own namespace.
C26_QualifiedReferenceResolvesInItsNamespace ==
  [][VsSetStep =>
       LET gatewayRef == Head(vRefs)
           vs   == Head(vVsItems)
           key  == << vNsName, vs.name, gatewayRef >>
           home == IF Qualified(gatewayRef) THEN << gatewayRef[1] >> ELSE << vNsName >>
           name == IF Qualified(gatewayRef) THEN << gatewayRef[3] >> ELSE gatewayRef
       IN  /\ key \in DOMAIN gauge'
           /\ \A k \in DOMAIN gauge' : k # key => k \in DOMAIN gauge /\ gauge'[k] = gauge[k]
           /\ NeedsGateways(gatewayRef) =>
                /\ home \in DOMAIN vhist'.gws
                /\ gauge'[key] = IF /\ name \in DOMAIN vhist'.gws[home]
                                    /\ hostsCompatible(vs.hosts, vhist'.gws[home][name])
                                 THEN 1 ELSE 0]_vars

\* The same VirtualService of ns-a names edge-gw and shared-ns/edge-gw; the
\* Gateway of shared-ns, a namespace without the label, is compatible and the
\* one of ns-a is not.
C26_Witness ==
  /\ << "ns-a", "vs-b", << "edge-gw" >> >> \in DOMAIN gauge
  /\ << "ns-a", "vs-b", << "shared-ns", "/", "edge-gw" >> >> \in DOMAIN gauge
  /\ gauge[<< "ns-a", "vs-b", << "edge-gw" >> >>] = 0
  /\ gauge[<< "ns-a", "vs-b", << "shared-ns", "/", "edge-gw" >> >>] = 1
  /\ \A i \in 1..Len(cluster.vsNamespaces) : cluster.vsNamespaces[i] # "shared-ns"

\* The pattern *.suffix: what follows the "*".
IsWildcard(h) == Len(h) >= 2 /\ h[1] = "*" /\ h[2] = "."
DotSuffix(h) == SubSeq(h, 2, Len(h))
EndsWith(h, x) == \E i \in 1..(Len(h) + 1) : SubSeq(h, i, Len(h)) = x

\* The rule of the claim, with and without the demand that equal hosts be
\* non-empty.
WildcardRule(a, b) ==
  \/ a = << "*" >> \/ b = << "*" >>
  \/ IsWildcard(a) /\ EndsWith(b, DotSuffix(a))
  \/ IsWildcard(b) /\ EndsWith(a, DotSuffix(b))

\* C27 as stated: a pair of hosts matches exactly when the two are equal, or
\* either is "*", or one is *.suffix and the other ends with .suffix.
C27_HostPairMatchesByRule ==
  hostPair.out # "none" =>
    (hostPair.out = "match") = (hostPair.vsHost = hostPair.gwHost
                                \/ WildcardRule(hostPair.vsHost, hostPair.gwHost))

\* C27, amended: a pair of hosts matches exactly when the two are equal and
\* not empty, or either is "*", or one is *.suffix and the other ends with
\* .suffix; the rule gives the same for the swapped pair.
C27_NonEmptyHostPairMatchesByRule ==
  hostPair.out # "none" =>
    /\ (hostPair.out = "match") =
         (\/ hostPair.vsHost = hostPair.gwHost /\ hostPair.vsHost # << >>
          \/ WildcardRule(hostPair.vsHost, hostPair.gwHost))
    /\ (hostPair.out = "match") =
         (\/ hostPair.gwHost = hostPair.vsHost /\ hostPair.gwHost # << >>
          \/ WildcardRule(hostPair.gwHost, hostPair.vsHost))

\* The host b.a has matched the wildcard *.a.
C27_Witness ==
  hostPair = [vsHost |-> HostApi, gwHost |-> HostWild, out |-> "match"]

\* Some host of the VirtualService and some server host of the Gateway match.
SomePairMatches(vsHosts, gateway) ==
  \E i \in 1..Len(vsHosts), j \in 1..Len(gateway.servers) :
    \E k \in 1..Len(gateway.servers[j].hosts) :
      LET a == vsHosts[i]
          b == gateway.servers[j].hosts[k]
      IN  (a = b /\ a # << >>) \/ WildcardRule(a, b)

\* C28: when the reference at hand names a Gateway that its namespace has,
\* the series is set to 1 if the VirtualService has no hosts or some pair of
\* a host of it and a server host of the Gateway matches, and to 0 else.
C28_ValueOfResolvedReference ==
  [][VsSetStep /\ NeedsGateways(Head(vRefs)) =>
       LET gatewayRef == Head(vRefs)
           vs  == Head(vVsItems)
           p   == ParseRef(vNsName, gatewayRef)
           gws == ListedGateways(vhist'.gws, p.gwNamespace)
       IN  p.gwName \in DOMAIN gws =>
             gauge'[<< vNsName, vs.name, gatewayRef >>] =
               IF vs.hosts = << >> \/ SomePairMatches(vs.hosts, gws[p.gwName])
               THEN 1 ELSE 0]_vars

\* A VirtualService without hosts has the value 1 for a Gateway without
\* servers, and one with a host has 0 for that Gateway and for a Gateway
\* whose only host is another one.
C28_Witness ==
  /\ vhist.outcome = "ok"
  /\ ListedGateways(vhist.gws, << "shared-ns" >>) = GatewayMap(<< GwBare >>)
  /\ ListedGateways(vhist.gws, << "ns-a" >>) = GatewayMap(<< GwOther >>)
  /\ << "ns-a", "vs-q", << "shared-ns", "/", "edge-gw" >> >> \in DOMAIN gauge
  /\ << "ns-a", "vs-b", << "shared-ns", "/", "edge-gw" >> >> \in DOMAIN gauge
  /\ << "ns-a", "vs-b", << "edge-gw" >> >> \in DOMAIN gauge
  /\ gauge[<< "ns-a", "vs-q", << "shared-ns", "/", "edge-gw" >> >>] = 1
  /\ gauge[<< "ns-a", "vs-b", << "shared-ns", "/", "edge-gw" >> >>] = 0
  /\ gauge[<< "ns-a", "vs-b", << "edge-gw" >> >>] = 0

\* C29: after a completed cycle every reference a listed VirtualService
\* names has its series, and the series is 0 when the reference is the empty
\* string, or the namespace it resolves to has no Gateways, or none of the
\* name it resolves to.
C29_UnresolvedReferenceIsZero ==
  vhist.outcome = "ok" =>
    \A l \in vhist.listed : \A i \in 1..Len(l[2].gateways) :
      LET gatewayRef == l[2].gateways[i]
          key == << l[1], l[2].name, gatewayRef >>
          p   == ParseRef(l[1], gatewayRef)
          gws == ListedGateways(vhist.gws, p.gwNamespace)
      IN  /\ key \in DOMAIN gauge
          /\ (\/ gatewayRef = << >>
              \/ gatewayRef # mesh /\ (DOMAIN gws = {} \/ p.gwName \notin DOMAIN gws))
             => gauge[key] = 0

\* A completed cycle has met the three cases: the reference "", a reference
\* into a namespace without Gateways, and a reference to a name its
\* namespace, which has a Gateway, does not have.
C29_Witness ==
  /\ vhist.outcome = "ok"
  /\ << "ns-a", VsBare >> \in vhist.listed
  /\ << "ns-a", VsQual >> \in vhist.listed
  /\ ListedGateways(vhist.gws, << "shared-ns" >>) = NoMap
  /\ << "shared-ns" >> \in DOMAIN vhist.gws
  /\ ListedGateways(vhist.gws, << "ns-a" >>) = GatewayMap(<< GwElse >>)
  /\ gauge[<< "ns-a", "vs-q", << >> >>] = 0
  /\ gauge[<< "ns-a", "vs-q", << "shared-ns", "/", "edge-gw" >> >>] = 0
  /\ gauge[<< "ns-a", "vs-b", << "edge-gw" >> >>] = 0

\* update is running.
VsInCycle == vpc \in {"nsloop", "listvs", "refs"}

\* C30: in one resolver cycle the Gateways of a namespace are listed at most
\* once; the cache holds exactly what the list calls of this cycle returned
\* (it is empty when the cycle starts), and a reference into a namespace the
\* cache has is handled without a further call.
C30_GatewaysListedOncePerCycle ==
  [][/\ \A n \in DOMAIN vhist'.calls : vhist'.calls[n] <= 1
     /\ VsStartStep => gatewayCache' = NoMap
     /\ VsInCycle' => gatewayCache' = vhist'.gws
     /\ (VsSetStep /\ NeedsGateways(Head(vRefs))
           /\ ParseRef(vNsName, Head(vRefs)).gwNamespace \in DOMAIN gatewayCache)
        => vhist'.calls = vhist.calls /\ gatewayCache' = gatewayCache]_vars

\* In its second cycle the resolver has listed the Gateways of shared-ns
\* once for the two VirtualServices that name it, and the value of a series
\* differs from the one of the cycle before.
C30_Witness ==
  /\ vhist.outcome = "ok"
  /\ loops["resolver"].started = 2
  /\ << "ns-a", VsBare >> \in vhist.listed
  /\ << "ns-a", VsQual >> \in vhist.listed
  /\ << "shared-ns" >> \in DOMAIN vhist.calls
  /\ vhist.calls[<< "shared-ns" >>] = 1
  /\ \E k \in DOMAIN gauge \cap DOMAIN vhist.before : gauge[k] # vhist.before[k]

\* ------------------------------------------------------------------ C35
\* C35: a reader holds the Catalog lock only while it copies out references:
\* as long as a reader holds the read lock it has cloned and merged nothing
\* yet, so a Put waits for no clone.  snapshot defers RUnlock to its return and
\* clones inside the range, so the statement fails as soon as a reader visits
\* a target that holds a family.
C35_ReaderClonesAfterUnlock == readers > 0 => rResult = NoMap

\* ------------------------------------------------------------------ C33
\* Every target that has an entry in the store holds an empty snapshot (also:
\* no target has an entry).
StoreHoldsNoFamily == \A t \in DOMAIN targets : DOMAIN targets[t] = {}

\* C33: WriteAll on a store in which no target has published, or in which every
\* target's current snapshot is empty, writes nothing and returns no error.
C33_WriteAllOfEmptyStoreWritesNothing ==
  [][ServeStep /\ StoreHoldsNoFamily => resp'.out = << >> /\ ~resp'.werr]_vars

\* A request was answered from a store in which targets have published, all of
\* them an empty snapshot, and nothing was put since.
C33_Witness ==
  /\ resp.served /\ ~resp.putSince
  /\ DOMAIN targets # {}
  /\ StoreHoldsNoFamily
  /\ resp.out = << >> /\ ~resp.werr

\* ------------------------------------------------------------------ C32
\* The step in which the handler of /metrics answers a request.
AnswerStep == rpc' = "done" /\ UNCHANGED scraperVars

\* The lines of a body that belong to the metrics exposition.
MetricLines(body) == { i \in 1..Len(body) : body[i].kind # "text" }

\* A family that holds a metric whose value is not of the family's type.
Unencodable(f) == \E i \in 1..Len(f.metric) : f.metric[i].kind # f.type

\* The samples the registry holds under the name n.
RegistrySamples(n) ==
  IF \E i \in 1..Len(Gather) : Gather[i].name = n
  THEN Len(Gather[CHOOSE i \in 1..Len(Gather) : Gather[i].name = n].metric)
  ELSE 0

\* C32: when Gather fails, or a family cannot be serialized, the handler
\* answers 500 and no line of the exposition is in the body; a body that holds
\* a line of the exposition holds all of it: under every name the samples of
\* the registry and of every target's snapshot, and the name's TYPE line.
C32_FailureWritesNoMetrics ==
  [][AnswerStep =>
       LET body     == resp'.body
           combined == Deref(heap, rResult)
           failed   == \/ resp'.gerr \/ resp'.eerr \/ resp'.werr
                       \/ ~resp'.gerr /\ \E n \in DOMAIN combined : Unencodable(combined[n])
           samples(n) == { i \in 1..Len(body) : body[i].kind = "sample" /\ body[i].name = n }
       IN  /\ failed => resp'.status = "500" /\ MetricLines(body) = {}
           /\ MetricLines(body) # {} =>
                /\ resp'.status = "200"
                /\ \A i \in 1..Len(NameOrder) :
                     LET n == NameOrder[i]
                     IN  /\ Cardinality(samples(n)) =
                              RegistrySamples(n) + SamplesStored(StoreVal, DOMAIN targets, n)
                         /\ samples(n) # {} =>
                              \E j \in 1..Len(body) : body[j].kind = "type" /\ body[j].name = n]_vars

\* Store.WriteAll failed on a family of the store and the request was answered
\* 500 with the error text alone.
C32_Witness ==
  /\ resp.served /\ resp.werr /\ ~resp.putSince
  /\ \E t \in DOMAIN targets : \E n \in DOMAIN targets[t] : Unencodable(heap[targets[t][n]])
  /\ resp.status = "500"
  /\ resp.body = << TextLine("failed to render metrics") >>

\* ------------------------------------------------------------------ C37
\* C37: a read of the compatibility gauge made while a cycle of update runs
\* shows the series the gauge held when the cycle began or the series it holds
\* when the cycle has completed, never a set in between.  Stated at the end of
\* a completed cycle, for a read made after that cycle's namespace list.
C37_ReadSeesWholeCycle ==
  (resp.served /\ resp.cycle = updateCount /\ vpc = "select" /\ vhist.outcome = "ok")
    => resp.series \in {vhist.before, gauge}

\* ------------------------------------------------------------------ C34
\* A step of the cycle scraper t is in, and of the resolver's.
CycleStep(t) ==
  \/ ListNamespacesFail(t) \/ ListNamespacesOk(t)
  \/ ListPodsFail(t) \/ ListPodsOk(t)
  \/ ScrapePodFail(t) \/ ScrapePodOk(t)
  \/ Publish(t)

VsCycleStep ==
  \/ VsListNamespacesFail \/ VsListNamespacesOk
  \/ VsEnsureFail \/ VsEnsureOk
  \/ VsListVSFail \/ VsListVSOk
  \/ VsRefFail \/ VsRefSet
  \/ VsReturn

\* Scraper t is inside ScrapeOnce, the resolver inside update (a cycle the
\* bound on the cycles of a run keeps from starting is not counted).
InScrapeOnce(t) == pc[t] = "loop" \/ (pc[t] = "scrape" /\ cycles < MaxCycles)
InUpdate ==
  vpc \in {"nsloop", "listvs", "refs"} \/ (vpc \in {"first", "update"} /\ cycles < MaxCycles)

\* C34: every outbound call of a loop carries its own timeout, so a cycle that
\* has started never waits for good: while no cancellation is raised, whatever
\* the peers do, a scraper inside ScrapeOnce and the resolver inside update
\* have a next step.  The list calls are made without a timeout, and a cycle
\* that waits for one of them when the peers fall silent has none.
C34_StartedCycleCanEnd ==
  ~cancelled =>
    /\ \A t \in TargetIDs : InScrapeOnce(t) => ENABLED CycleStep(t)
    /\ InUpdate => ENABLED VsCycleStep

\* ------------------------------------------------------------------ C31
\* The spellings of DurationStrings that stand for a duration of zero or less.
NonPositiveSpelling(str) == str \in { << "0", "s" >>, << "-", "1", "s" >> }

\* The configurations the claim calls invalid.
Rejectable(raw) ==
  \/ raw.virtualServiceInterval = << >>
  \/ NonPositiveSpelling(raw.virtualServiceInterval)
  \/ raw.productMetrics = << >>
  \/ \E i \in 1..Len(raw.productMetrics) :
       LET target == raw.productMetrics[i]
       IN  \/ target.name = ""
           \/ NonPositiveSpelling(target.interval)
           \/ target.port <= 0
           \/ target.path = ""
           \/ target.namespaceSelector = ""
           \/ target.podSelector = ""

\* main is past its call of Load.
Loaded == main.pc \in {"exited", "resolver", "scrapers", "serving"}

C36_OneScraperPerTargetID ==
  [][/\ \A i, j \in 1..Len(main'.scrapers) :
          i # j => main'.scrapers[i] # main'.scrapers[j]
     /\ \A n \in DOMAIN main.store : main'.store[n] = main.store[n]]_vars

====
